---- MODULE Spec2Model ----
(***************************************************************************)
(* Model of the serial port library (package serial, port.go): the CTS     *)
(* flow-control write gate (ctsMonitor), the port facade with its RWMutex  *)
(* and closed flag, and the modem signal change waiter.                    *)
(***************************************************************************)
EXTENDS Integers, Sequences, FiniteSets, TLC

(* ------------------------------ bounds --------------------------------- *)
\* number of goroutines calling Write / WriteContext concurrently
NWriters == 2
\* total number of Write / WriteContext calls made in a behaviour
MaxReqs == 2
\* number of goroutines calling Close
NClosers == 2
\* longest data buffer handed to Write
MaxLen == 2
\* number of WaitForSignalChange / WaitForSignalChangeContext calls
MaxSigCalls == 1
\* number of Write / WriteContext calls made while several goroutines Close
CloseReqs == 2
\* number of Write / WriteContext calls made among the other operations
OpsReqs == 1
\* number of calls the client makes when it goes through every operation
MaxOps == 1
\* edge-wait returns counted for one request
MaxWakes == 2
\* options passed to one Open
MaxOpts == 2
\* number of goroutines calling SetRTS / SetDTR concurrently
NSetters == 2
\* total number of SetRTS / SetDTR calls made in a behaviour
MaxSetCalls == 3

(* ----------------------- program constants ----------------------------- *)
\* golang.org/x/sys/unix modem line bits (linux), as used by port.go
TIOCM_DTR == 2
TIOCM_RTS == 4
TIOCM_CTS == 32
TIOCM_CAR == 64
TIOCM_RI == 128
TIOCM_DSR == 256
\* SignalMask bits: SignalCTS SignalMask = 1 << iota
SignalCTS == 1
SignalDSR == 2
SignalRI == 4
SignalDCD == 8
\* writeCh: make(chan *writeRequest, 1)
WriteChCap == 1

Closers == 1..NClosers
Ids == 1..MaxReqs
\* pendingWrite == nil
NoReq == 0

\* FlowControl enumeration
FlowControlNone == "None"
FlowControlCTS == "CTS"
FlowControlRTSCTS == "RTSCTS"
FlowControls == {FlowControlNone, FlowControlCTS, FlowControlRTSCTS}

\* error values (errors.go) and errno values surfaced by the unix package
Nil == "nil"
ErrPortClosed == "ErrPortClosed"
ErrCTSTimeout == "ErrCTSTimeout"
ErrSignalTimeout == "ErrSignalTimeout"
ErrInvalidSignalMask == "ErrInvalidSignalMask"
\* an error of a system call on the descriptor (EIO, EINTR, ENODEV, and EBADF
\* once the descriptor is closed); the code passes it on without looking at it
Errno == "errno"
\* ctx.Err() of a context that is done (Canceled or DeadlineExceeded)
CtxErr == "ctx.Err()"

\* writeResult{n, err}
Result(n, err) == [n |-> n, err |-> err]
NoResult == [n |-> 0 - 2, err |-> "none"]

\* len(data) of request i: the calls pass buffers of 1..MaxLen bytes in turn
reqLen == [i \in Ids |-> ((i - 1) % MaxLen) + 1]

\* x & b # 0 for a single-bit b
HasBit(x, b) == (x \div b) % 2 = 1

\* x | y on Go ints (two's complement: -1 has every bit set)
RECURSIVE BitOr(_, _)
BitOr(x, y) ==
    IF x = 0 THEN y
    ELSE IF y = 0 THEN x
    ELSE IF x = 0 - 1 \/ y = 0 - 1 THEN 0 - 1
    ELSE (IF x % 2 = 1 \/ y % 2 = 1 THEN 1 ELSE 0) + 2 * BitOr(x \div 2, y \div 2)

VARIABLES
    mode,        \* p.config.FlowControl
    closed,      \* p.closed
    fdOpen,      \* the descriptor p.fd is open in the kernel
    status,      \* the modem status word of the device (TIOCMGET)
    readers,     \* number of holders of p.mu.RLock
    clpc,        \* per Close caller: position in Close
    clres,       \* per Close caller: returned error
    stopCloses,  \* number of close(c.stopCh) executed
    fdCloses,    \* number of unix.Close(p.fd) executed
    writeCh,     \* c.writeCh contents (request ids)
    pendingWrite,\* the background goroutine's pendingWrite
    monPc,       \* position of the background goroutine of ctsMonitor.start
    waiter,      \* the edge-wait goroutine and its done channel
    resultCh,    \* per request: contents of req.resultCh
    q,           \* per request: the queueWrite activation (pc, result)
    call,        \* per request: the public Write / WriteContext call made for it
    nextId,      \* next request id
    reqLimit,    \* number of Write / WriteContext calls the callers make
    accepted,    \* history: requests in the order they entered writeCh
    written,     \* history: requests in the order unix.Write was issued for them
    delivered,   \* history: requests for which a result was sent on resultCh
    wakes,       \* history: edge-waits that returned nil for the request the
                 \* goroutine holds, counted up to MaxWakes
    lateOps,     \* history: operations the background goroutine issued on the
                 \* descriptor after unix.Close
    sig,         \* per WaitForSignalChange(Context) call: its state and result
    lastOp,      \* the last call of one of the port's short operations
    rd,          \* the ReadContext call and its read goroutine
    config,      \* the Config the options of Open build
    opn,         \* the call of Open: its position, options applied and result
    set,         \* per goroutine: its SetRTS / SetDTR call, step by step
    setCalls,    \* number of SetRTS / SetDTR calls made step by step
    lineSet,     \* history: the state the last TIOCMSET of a SetRTS and of a
                 \* SetDTR call wrote for its line
    lostBytes    \* history: the number of bytes the last unix.Read of a
                 \* ReadContext goroutine took whose result no one received

vars == <<mode, closed, fdOpen, status, readers, clpc, clres, stopCloses,
          fdCloses, writeCh, pendingWrite, monPc, waiter, resultCh, q,
          call, nextId, reqLimit, accepted, written, delivered, wakes, lateOps,
          sig, lastOp, rd, config, opn, set, setCalls, lineSet, lostBytes>>

portVars == <<mode, closed, fdOpen, readers, clpc, clres, stopCloses, fdCloses, reqLimit>>
gateVars == <<writeCh, pendingWrite, monPc, waiter, resultCh>>
callVars == <<q, call, nextId>>
histVars == <<accepted, written, delivered, wakes, lateOps>>
sigVars == <<sig, lastOp, rd>>
openVars == <<config, opn>>
setVars == <<set, setCalls, lineSet>>


(* ------------------------- modem status words ------------------------- *)
\* the input lines the peer drives, as TIOCM bits
InputBits == {TIOCM_CTS, TIOCM_DSR, TIOCM_RI, TIOCM_CAR}

\* the status word with one line toggled
Toggle(st, b) == IF HasBit(st, b) THEN st - b ELSE st + b
\* status |= b and status &^= b for a single-bit b
SetBit(st, b) == IF HasBit(st, b) THEN st ELSE st + b
ClearBit(st, b) == IF HasBit(st, b) THEN st - b ELSE st

\* ModemSignals{CTS: status&unix.TIOCM_CTS != 0, ...}
Signals(st) ==
    [CTS |-> HasBit(st, TIOCM_CTS), DSR |-> HasBit(st, TIOCM_DSR),
     RI |-> HasBit(st, TIOCM_RI), DCD |-> HasBit(st, TIOCM_CAR),
     RTS |-> HasBit(st, TIOCM_RTS), DTR |-> HasBit(st, TIOCM_DTR)]
\* ModemSignals{}
NoSignals == Signals(0)

\* an if / else-if chain: only the first line named in mask is converted
signalMaskToTIOCMFirstLine(mask) ==
    IF HasBit(mask, SignalCTS) THEN TIOCM_CTS
    ELSE IF HasBit(mask, SignalDSR) THEN TIOCM_DSR
    ELSE IF HasBit(mask, SignalRI) THEN TIOCM_RI
    ELSE IF HasBit(mask, SignalDCD) THEN TIOCM_CAR
    ELSE 0

\* signalMaskToTIOCM: the TIOCM bits of the lines named in mask
signalMaskToTIOCM(mask) ==
    (IF HasBit(mask, SignalCTS) THEN TIOCM_CTS ELSE 0)
    + (IF HasBit(mask, SignalDSR) THEN TIOCM_DSR ELSE 0)
    + (IF HasBit(mask, SignalRI) THEN TIOCM_RI ELSE 0)
    + (IF HasBit(mask, SignalDCD) THEN TIOCM_CAR ELSE 0)

\* the comparison leaves out the carrier-detect line
detectSignalChangesNoDCD(oldStatus, newStatus) ==
    (IF HasBit(oldStatus, TIOCM_CTS) # HasBit(newStatus, TIOCM_CTS) THEN SignalCTS ELSE 0)
  + (IF HasBit(oldStatus, TIOCM_DSR) # HasBit(newStatus, TIOCM_DSR) THEN SignalDSR ELSE 0)
  + (IF HasBit(oldStatus, TIOCM_RI) # HasBit(newStatus, TIOCM_RI) THEN SignalRI ELSE 0)

\* only a line that went high is reported
detectSignalChangesRisingOnly(oldStatus, newStatus) ==
    (IF ~HasBit(oldStatus, TIOCM_CTS) /\ HasBit(newStatus, TIOCM_CTS) THEN SignalCTS ELSE 0)
    + (IF ~HasBit(oldStatus, TIOCM_DSR) /\ HasBit(newStatus, TIOCM_DSR) THEN SignalDSR ELSE 0)
    + (IF ~HasBit(oldStatus, TIOCM_RI) /\ HasBit(newStatus, TIOCM_RI) THEN SignalRI ELSE 0)
    + (IF ~HasBit(oldStatus, TIOCM_CAR) /\ HasBit(newStatus, TIOCM_CAR) THEN SignalDCD ELSE 0)

\* detectSignalChanges: the lines whose bit differs between the two words
detectSignalChanges(oldStatus, newStatus) ==
    (IF HasBit(oldStatus, TIOCM_CTS) # HasBit(newStatus, TIOCM_CTS) THEN SignalCTS ELSE 0)
    + (IF HasBit(oldStatus, TIOCM_DSR) # HasBit(newStatus, TIOCM_DSR) THEN SignalDSR ELSE 0)
    + (IF HasBit(oldStatus, TIOCM_RI) # HasBit(newStatus, TIOCM_RI) THEN SignalRI ELSE 0)
    + (IF HasBit(oldStatus, TIOCM_CAR) # HasBit(newStatus, TIOCM_CAR) THEN SignalDCD ELSE 0)

(* --------------------- signal waits and short calls -------------------- *)
SigCalls == 1..MaxSigCalls
\* the masks the callers pass: none, single lines, DSR|DCD, all four lines,
\* and a value with no defined line in it
SigMasks == {0, SignalCTS, SignalDSR, SignalDSR + SignalDCD,
             SignalCTS + SignalDSR + SignalRI + SignalDCD, 16}

\* the (ModemSignals, SignalMask, error) a signal wait returned
SigResult(signals, changed, err) == [signals |-> signals, changed |-> changed, err |-> err]
NoSigResult == SigResult(NoSignals, 0, "none")

\* a WaitForSignalChange(Context) call that has not been made
NoSig == [pc |-> "none", ctx |-> FALSE, mask |-> 0, atClosed |-> FALSE,
          atCtxDone |-> FALSE, old |-> 0, new |-> 0,
          go |-> "none", touched |-> FALSE, res |-> NoSigResult]

\* the port's short operations, each one call under the port lock
ShortOps == {"Read", "GetCTSStatus", "GetModemSignals", "SetRTS", "GetRTS",
             "SetDTR", "GetDTR", "DrainOutput", "DrainInput", "FlushInput",
             "FlushOutput"}
NoOp == [op |-> "none", arg |-> FALSE, closedAtCall |-> FALSE, touched |-> FALSE,
         err |-> "none", val |-> FALSE, signals |-> NoSignals, n |-> 0]

\* the goroutines that call SetRTS / SetDTR
Setters == 1..NSetters
\* a goroutine that is in no SetRTS / SetDTR call
NoSet == [pc |-> "idle", op |-> "none", arg |-> FALSE, write |-> FALSE, status |-> 0,
          err |-> "none"]
\* no SetRTS and no SetDTR call has written its line
NoLineSet == [RTS |-> "none", DTR |-> "none"]

\* ReadContext: no call in progress, no read goroutine
NoRead == [pc |-> "idle", go |-> "none", ctx |-> FALSE, n |-> 0]

(* ------------------------- Config and its options --------------------- *)
\* durations are counted in ticks of 250 microseconds
Millisecond == 4
Second == 1000 * Millisecond

ErrInvalidBaudRate == "ErrInvalidBaudRate"
ErrInvalidConfig == "ErrInvalidConfig"

\* the rates getBaudRate knows
BaudRates == {50, 75, 110, 134, 150, 200, 300, 600, 1200, 1800, 2400, 4800, 9600,
              19200, 38400, 57600, 115200, 230400, 460800, 500000, 576000,
              921600, 1000000, 1152000, 1500000, 2000000, 2500000, 3000000,
              3500000, 4000000}
getBaudRate(rate) == IF rate \in BaudRates THEN Nil ELSE ErrInvalidBaudRate

\* InitialRTS and InitialDTR are *bool: "nil", or a pointer to true or false
DefaultConfig ==
    [BaudRate |-> 115200, DataBits |-> 8, StopBits |-> 1,
     FlowControl |-> FlowControlNone, CTSTimeout |-> 60 * Second,
     ReadTimeout |-> 2500 * Millisecond, InitialRTS |-> "nil", InitialDTR |-> "nil"]

\* what an Option returns, and the Config it leaves behind
OptResult(e, c) == [err |-> e, cfg |-> c]

WithBaudRate(rate, c) ==
    IF getBaudRate(rate) # Nil THEN OptResult(getBaudRate(rate), c)
    ELSE OptResult(Nil, [c EXCEPT !.BaudRate = rate])

WithDataBits(bits, c) ==
    IF bits < 5 \/ bits > 8 THEN OptResult(ErrInvalidConfig, c)
    ELSE OptResult(Nil, [c EXCEPT !.DataBits = bits])

WithStopBits(bits, c) ==
    IF bits # 1 /\ bits # 2 THEN OptResult(ErrInvalidConfig, c)
    ELSE OptResult(Nil, [c EXCEPT !.StopBits = bits])

WithFlowControl(fc, c) == OptResult(Nil, [c EXCEPT !.FlowControl = fc])

WithCTSTimeout(timeout, c) ==
    IF timeout < 0 THEN OptResult(ErrInvalidConfig, c)
    ELSE OptResult(Nil, [c EXCEPT !.CTSTimeout = timeout])

\* only the range is checked, not the multiple of 100 ms
WithReadTimeoutRangeOnly(timeout, c) ==
    IF timeout < 0 \/ timeout > 255 * 100 * Millisecond THEN OptResult(ErrInvalidConfig, c)
    ELSE OptResult(Nil, [c EXCEPT !.ReadTimeout = timeout])

WithReadTimeout(timeout, c) ==
    IF timeout < 0 \/ timeout > 255 * 100 * Millisecond THEN OptResult(ErrInvalidConfig, c)
    ELSE IF timeout % (100 * Millisecond) # 0 THEN OptResult(ErrInvalidConfig, c)
    ELSE OptResult(Nil, [c EXCEPT !.ReadTimeout = timeout])

WithInitialRTS(state, c) == OptResult(Nil, [c EXCEPT !.InitialRTS = state])
WithInitialDTR(state, c) == OptResult(Nil, [c EXCEPT !.InitialDTR = state])

\* the arguments the callers pass
BaudArgs == {9600, 12345}
DataBitsArgs == {4, 7, 9}
StopBitsArgs == {0, 2, 3}
CTSTimeoutArgs == {0 - Millisecond, 0, Second}
ReadTimeoutArgs == {0 - 100 * Millisecond, 0, 1, 100 * Millisecond, 150 * Millisecond,
                    25500 * Millisecond, 25500 * Millisecond + 1, 25600 * Millisecond}

\* one option call on Config c: its name, its numeric argument (0 when it
\* has none) and what it returns
OptionCalls(c) ==
    {[name |-> "WithBaudRate", arg |-> a, res |-> WithBaudRate(a, c)] : a \in BaudArgs}
    \cup {[name |-> "WithDataBits", arg |-> a, res |-> WithDataBits(a, c)] : a \in DataBitsArgs}
    \cup {[name |-> "WithStopBits", arg |-> a, res |-> WithStopBits(a, c)] : a \in StopBitsArgs}
    \cup {[name |-> "WithCTSTimeout", arg |-> a, res |-> WithCTSTimeout(a, c)] :
             a \in CTSTimeoutArgs}
    \cup {[name |-> "WithReadTimeout", arg |-> a, res |-> WithReadTimeout(a, c)] :
             a \in ReadTimeoutArgs}
    \cup {[name |-> "WithFlowControl", arg |-> 0, res |-> WithFlowControl(fc, c)] :
             fc \in FlowControls}
    \cup {[name |-> "WithInitialRTS", arg |-> 0, res |-> WithInitialRTS(b, c)] :
             b \in {"true", "false"}}
    \cup {[name |-> "WithInitialDTR", arg |-> 0, res |-> WithInitialDTR(b, c)] :
             b \in {"true", "false"}}

\* the errors Open builds with fmt.Errorf
ErrCTSNeedsInitialRTS == "CTS flow control requires WithInitialRTS(true) to assert RTS"
ErrRTSCTSNeedsInitialRTS == "RTS/CTS flow control requires WithInitialRTS(true) to assert RTS"
ErrOpenFailed == "failed to open"
ErrTermios == "failed to set termios"
ErrSetInitialRTS == "failed to set initial RTS"
ErrVerifyInitialRTS == "failed to verify initial RTS"
ErrInitialRTSMismatch == "initial RTS verification failed"
ErrSetInitialDTR == "failed to set initial DTR"

\* Open has not been called
NoOpen == [pc |-> "opts", nopts |-> 0, opt |-> "none", arg |-> 0, optErr |-> "none",
           err |-> "none", sysOpens |-> 0]

\* a Config with which Open returns a port of flow-control mode m
OpenedConfig(m) ==
    [DefaultConfig EXCEPT !.FlowControl = m,
                          !.InitialRTS = IF m = FlowControlNone THEN "nil" ELSE "false"]

(* ------------------------------ initial state -------------------------- *)
\* Open (port.go:437-447): closed false, the monitor goroutine exists exactly
\* in CTS mode and starts with pendingWrite == nil, both channels empty.
\* nClose goroutines are going to call Close, and nReq calls of Write or
\* WriteContext are going to be made.
InitPort(m, nClose, nReq) ==
    /\ mode = m
    /\ reqLimit = nReq
    /\ closed = FALSE
    /\ fdOpen = TRUE
    /\ readers = 0
    /\ clpc = [k \in Closers |-> IF k <= nClose THEN "idle" ELSE "off"]
    /\ clres = [k \in Closers |-> "none"]
    /\ stopCloses = 0
    /\ fdCloses = 0
    /\ writeCh = <<>>
    /\ pendingWrite = NoReq
    /\ monPc = IF m = FlowControlCTS THEN "idle" ELSE "absent"
    /\ waiter = "none"
    /\ resultCh = [i \in Ids |-> NoResult]
    /\ q = [i \in Ids |-> [pc |-> "none", res |-> NoResult]]
    /\ call = [i \in Ids |-> "none"]
    /\ nextId = 1
    /\ accepted = <<>>
    /\ written = <<>>
    /\ delivered = {}
    /\ lateOps = {}
    /\ wakes = 0
    /\ sig = [s \in SigCalls |-> NoSig]
    /\ lastOp = NoOp
    /\ rd = NoRead
    /\ config = OpenedConfig(m)
    /\ opn = [NoOpen EXCEPT !.pc = "done", !.err = Nil, !.sysOpens = 1]
    /\ set = [t \in Setters |-> NoSet]
    /\ setCalls = 0
    /\ lineSet = NoLineSet
    /\ lostBytes = 0

(* ------------------------------ the RWMutex ---------------------------- *)
\* goroutine t waits in p.mu.Lock() / holds the write lock in SetRTS or SetDTR
SetWaitsForLock(t) == set[t].pc = "waiting" /\ set[t].write
SetHoldsLock(t) == set[t].pc \in {"locked", "read"} /\ set[t].write

\* sync.RWMutex: RLock succeeds when no writer holds the lock and none waits
CanRLock ==
    /\ \A k \in Closers : clpc[k] \notin {"waiting", "stopped"}
    /\ \A t \in Setters : ~SetWaitsForLock(t) /\ ~SetHoldsLock(t)
\* Lock does not wait for the holders of the read lock
CanLockOverReaders ==
    /\ \A k \in Closers : clpc[k] # "stopped"
    /\ \A t \in Setters : ~SetHoldsLock(t)

\* Lock succeeds when there is no reader and no other writer
CanLock ==
    /\ readers = 0
    /\ \A k \in Closers : clpc[k] # "stopped"
    /\ \A t \in Setters : ~SetHoldsLock(t)

\* close(c.stopCh) has happened: <-c.stopCh is ready
Stopped == stopCloses > 0

(* ------------------------- device primitives --------------------------- *)
\* getModemStatus (TIOCMGET): an error on a closed descriptor, else the
\* status word or a device error
StatusOutcomes == IF fdOpen THEN {Nil, Errno} ELSE {Errno}
\* unix.Write(fd, data): n = -1 and an error on a closed descriptor, else n
\* in 1..len (a short write when n < len) or n = -1 and an error
WriteOutcomes(len) ==
    IF fdOpen
    THEN {Result(n, Nil) : n \in 1..len} \cup {Result(0 - 1, Errno)}
    ELSE {Result(0 - 1, Errno)}
\* a descriptor operation the background goroutine issues after unix.Close
Late(op) == IF fdOpen THEN lateOps ELSE lateOps \cup {op}

(* ------------------------------- Close --------------------------------- *)
\* p.mu.Lock() requested
CloseCall(k) ==
    /\ clpc[k] = "idle"
    /\ clpc' = [clpc EXCEPT ![k] = "waiting"]
    /\ UNCHANGED <<lostBytes, setVars, openVars, mode, closed, fdOpen, status, readers, clres, stopCloses, fdCloses, reqLimit, sigVars>>
    /\ UNCHANGED <<gateVars, callVars, histVars>>

\* p.closed is set only when unix.Close succeeded
ClosedOnlyOnSuccess(err) == err = Nil

\* p.closed after a Close that ran unix.Close returning err
ClosedAfterClose(err) == TRUE

\* lock acquired: if p.closed return ErrPortClosed, else ctsMonitor.stop()
CloseAcquire(k) ==
    /\ clpc[k] = "waiting"
    /\ CanLock
    /\ IF closed
       THEN /\ clpc' = [clpc EXCEPT ![k] = "done"]
            /\ clres' = [clres EXCEPT ![k] = ErrPortClosed]
            /\ UNCHANGED stopCloses
       ELSE /\ clpc' = [clpc EXCEPT ![k] = "stopped"]
            /\ stopCloses' = IF mode = FlowControlCTS THEN stopCloses + 1 ELSE stopCloses
            /\ UNCHANGED clres
    /\ UNCHANGED <<lostBytes, setVars, openVars, mode, closed, fdOpen, status, readers, fdCloses, reqLimit, sigVars>>
    /\ UNCHANGED <<gateVars, callVars, histVars>>

\* err := unix.Close(p.fd); p.closed = true; return err (and unlock)
CloseFd(k) ==
    /\ clpc[k] = "stopped"
    /\ \E err \in {Nil, Errno} :
        /\ clres' = [clres EXCEPT ![k] = err]
        /\ closed' = ClosedAfterClose(err)
    /\ fdOpen' = FALSE
    /\ fdCloses' = fdCloses + 1
    /\ clpc' = [clpc EXCEPT ![k] = "done"]
    /\ UNCHANGED <<lostBytes, setVars, openVars, mode, status, readers, stopCloses, reqLimit, sigVars>>
    /\ UNCHANGED <<gateVars, callVars, histVars>>


(* ------------------------ Write and queueWrite ------------------------- *)
\* the public call for request i is in progress (it holds p.mu.RLock)
InCall(i) == call[i] \in {"inWrite", "inWriteCtx", "ctxFirst", "ctxLater"}
\* request i's WriteContext call is at its select; its context is done and was
\* done before ("ctxFirst") or after ("ctxLater") the helper had its result
InSelect(i) == call[i] \in {"inWriteCtx", "ctxFirst", "ctxLater"}
\* the public call for request i has returned
Returned(i) == call[i] \in {"retResult", "retCtx"}
\* the (n, err) it returned: the value of its queueWrite / unix.Write, or
\* 0, ctx.Err() when WriteContext took the ctx.Done() branch
RetVal(i) == IF call[i] = "retCtx" THEN Result(0, CtxErr) ELSE q[i].res
\* a goroutine is free to make the next call
CanCall ==
    /\ nextId <= reqLimit
    /\ Cardinality({i \in Ids : InCall(i)}) < NWriters

\* queueWrite activation i returns res; a plain Write returns the same value
\* and releases its read lock (defer p.mu.RUnlock())
QReturn(i, res) ==
    /\ q' = [q EXCEPT ![i] = [pc |-> "done", res |-> res]]
    /\ call' = IF call[i] = "inWrite" THEN [call EXCEPT ![i] = "retResult"] ELSE call
    /\ readers' = IF call[i] = "inWrite" THEN readers - 1 ELSE readers

\* every mode with flow control goes through the gate
GatedUnlessNone(m) == m # FlowControlNone

\* the calls write on the descriptor themselves in every mode
GatedNever(m) == FALSE

\* p.config.FlowControl == FlowControlCTS && p.ctsMonitor != nil: the write is
\* handed to the gate
Gated(m) == m = FlowControlCTS

\* Write(data): RLock, closed check, then queueWrite in CTS mode or a direct
\* unix.Write under the read lock
WriteCall ==
    /\ CanCall
    /\ CanRLock
    /\ nextId' = nextId + 1
    /\ IF closed
       THEN /\ q' = [q EXCEPT ![nextId] = [pc |-> "done", res |-> Result(0, ErrPortClosed)]]
            /\ call' = [call EXCEPT ![nextId] = "retResult"]
            /\ UNCHANGED <<readers, written>>
       ELSE IF Gated(mode)
       THEN /\ q' = [q EXCEPT ![nextId] = [pc |-> "enq", res |-> NoResult]]
            /\ call' = [call EXCEPT ![nextId] = "inWrite"]
            /\ readers' = readers + 1
            /\ UNCHANGED written
       ELSE /\ \E r \in WriteOutcomes(reqLen[nextId]) :
                 q' = [q EXCEPT ![nextId] = [pc |-> "done", res |-> r]]
            /\ call' = [call EXCEPT ![nextId] = "retResult"]
            /\ written' = Append(written, nextId)
            /\ UNCHANGED readers
    /\ UNCHANGED <<lostBytes, setVars, openVars, mode, closed, fdOpen, status, clpc, clres, stopCloses, fdCloses, reqLimit, sigVars>>
    /\ UNCHANGED <<gateVars, accepted, delivered, wakes, lateOps>>

\* queueWrite, first select: case c.writeCh <- req
QAccept(i) ==
    /\ q[i].pc = "enq"
    /\ Len(writeCh) < WriteChCap
    /\ writeCh' = Append(writeCh, i)
    /\ accepted' = Append(accepted, i)
    /\ q' = [q EXCEPT ![i].pc = "wait"]
    /\ UNCHANGED <<lostBytes, setVars, openVars, portVars, sigVars, status, pendingWrite, monPc, waiter, resultCh>>
    /\ UNCHANGED <<call, nextId>>
    /\ UNCHANGED <<written, delivered, wakes, lateOps>>

\* the timer case returns although the send went through
QEnqTimeoutAfterSend(i) ==
    /\ q[i].pc = "enq"
    /\ QReturn(i, Result(0, ErrCTSTimeout))
    /\ writeCh' = IF Len(writeCh) < WriteChCap THEN Append(writeCh, i) ELSE writeCh
    /\ UNCHANGED <<lostBytes, setVars, openVars, mode, closed, fdOpen, status, clpc, clres, stopCloses, fdCloses, reqLimit, sigVars>>
    /\ UNCHANGED <<pendingWrite, monPc, waiter, resultCh, nextId, histVars>>

\* queueWrite, first select: case <-timer.C
QEnqTimeout(i) ==
    /\ q[i].pc = "enq"
    /\ QReturn(i, Result(0, ErrCTSTimeout))
    /\ UNCHANGED <<lostBytes, setVars, openVars, mode, closed, fdOpen, status, clpc, clres, stopCloses, fdCloses, reqLimit, sigVars>>
    /\ UNCHANGED <<gateVars, nextId, histVars>>

\* queueWrite, first select: case <-c.stopCh
QEnqStopped(i) ==
    /\ q[i].pc = "enq"
    /\ Stopped
    /\ QReturn(i, Result(0, ErrPortClosed))
    /\ UNCHANGED <<lostBytes, setVars, openVars, mode, closed, fdOpen, status, clpc, clres, stopCloses, fdCloses, reqLimit, sigVars>>
    /\ UNCHANGED <<gateVars, nextId, histVars>>

\* queueWrite, second select: case result := <-req.resultCh
QResult(i) ==
    /\ q[i].pc = "wait"
    /\ resultCh[i] # NoResult
    /\ QReturn(i, resultCh[i])
    /\ resultCh' = [resultCh EXCEPT ![i] = NoResult]
    /\ UNCHANGED <<lostBytes, setVars, openVars, mode, closed, fdOpen, status, clpc, clres, stopCloses, fdCloses, reqLimit, sigVars>>
    /\ UNCHANGED <<writeCh, pendingWrite, monPc, waiter>>
    /\ UNCHANGED <<nextId, histVars>>

\* the timed-out caller takes its request back from the channel or from the
\* goroutine
QWaitTimeoutRetract(i) ==
    /\ q[i].pc = "wait"
    /\ QReturn(i, Result(0, ErrCTSTimeout))
    /\ writeCh' = SelectSeq(writeCh, LAMBDA j : j # i)
    /\ pendingWrite' = IF pendingWrite = i THEN NoReq ELSE pendingWrite
    /\ monPc' = IF pendingWrite = i /\ monPc \in {"query", "write"} THEN "idle" ELSE monPc
    /\ UNCHANGED <<lostBytes, setVars, openVars, mode, closed, fdOpen, status, clpc, clres, stopCloses, fdCloses, reqLimit, sigVars>>
    /\ UNCHANGED <<waiter, resultCh, nextId, histVars>>

\* the timed-out caller marks its own request with the timeout
QWaitTimeoutFillsSlot(i) ==
    /\ q[i].pc = "wait"
    /\ QReturn(i, Result(0, ErrCTSTimeout))
    /\ resultCh' = [resultCh EXCEPT ![i] = Result(0, ErrCTSTimeout)]
    /\ UNCHANGED <<lostBytes, setVars, openVars, mode, closed, fdOpen, status, clpc, clres, stopCloses, fdCloses, reqLimit, sigVars>>
    /\ UNCHANGED <<writeCh, pendingWrite, monPc, waiter, nextId, histVars>>

\* queueWrite, second select: case <-timer.C; the request is left where it is
QWaitTimeout(i) ==
    /\ q[i].pc = "wait"
    /\ QReturn(i, Result(0, ErrCTSTimeout))
    /\ UNCHANGED <<lostBytes, setVars, openVars, mode, closed, fdOpen, status, clpc, clres, stopCloses, fdCloses, reqLimit, sigVars>>
    /\ UNCHANGED <<gateVars, nextId, histVars>>

\* the shutdown case reports the descriptor's error
QWaitStoppedErrno(i) ==
    /\ q[i].pc = "wait"
    /\ Stopped
    /\ QReturn(i, Result(0, Errno))
    /\ UNCHANGED <<lostBytes, setVars, openVars, mode, closed, fdOpen, status, clpc, clres, stopCloses, fdCloses, reqLimit, sigVars>>
    /\ UNCHANGED <<gateVars, nextId, histVars>>

\* queueWrite, second select: case <-c.stopCh
QWaitStopped(i) ==
    /\ q[i].pc = "wait"
    /\ Stopped
    /\ QReturn(i, Result(0, ErrPortClosed))
    /\ UNCHANGED <<lostBytes, setVars, openVars, mode, closed, fdOpen, status, clpc, clres, stopCloses, fdCloses, reqLimit, sigVars>>
    /\ UNCHANGED <<gateVars, nextId, histVars>>

(* ----------------------------- WriteContext ---------------------------- *)
\* the context is looked at only in the select
CtxEntryNoCtxCheck(isClosed, ctxDone) ==
    IF isClosed THEN ErrPortClosed ELSE Nil

\* the checks ReadContext and WriteContext make before any I/O, in the order
\* of the code: p.closed under the read lock, then ctx.Done(); Nil when both
\* pass
CtxEntry(isClosed, ctxDone) ==
    IF isClosed THEN ErrPortClosed
    ELSE IF ctxDone THEN CtxErr
    ELSE Nil

\* WriteContext(ctx, data): RLock, closed check, ctx.Done() check, then a
\* helper goroutine runs queueWrite (CTS mode) or unix.Write (otherwise)
WriteContextCall ==
    /\ CanCall
    /\ CanRLock
    /\ nextId' = nextId + 1
    /\ \E ctxDone \in BOOLEAN :
        LET e == CtxEntry(closed, ctxDone) IN
        IF e # Nil
        THEN /\ q' = [q EXCEPT ![nextId] = [pc |-> "done", res |-> Result(0, e)]]
             /\ call' = [call EXCEPT ![nextId] = "retResult"]
             /\ UNCHANGED readers
        ELSE /\ q' = [q EXCEPT ![nextId] =
                       [pc |-> IF Gated(mode) THEN "enq" ELSE "direct",
                        res |-> NoResult]]
             /\ call' = [call EXCEPT ![nextId] =
                            IF ctxDone THEN "ctxFirst" ELSE "inWriteCtx"]
             /\ readers' = readers + 1
    /\ UNCHANGED <<lostBytes, setVars, openVars, mode, closed, fdOpen, status, clpc, clres, stopCloses, fdCloses, reqLimit, sigVars>>
    /\ UNCHANGED <<gateVars, histVars>>

\* the helper goroutine of the ungated WriteContext: unix.Write(p.fd, data)
DirectWrite(i) ==
    /\ q[i].pc = "direct"
    /\ \E r \in WriteOutcomes(reqLen[i]) :
         q' = [q EXCEPT ![i] = [pc |-> "done", res |-> r]]
    /\ written' = Append(written, i)
    /\ UNCHANGED <<lostBytes, setVars, openVars, portVars, sigVars, status, gateVars>>
    /\ UNCHANGED <<call, nextId, accepted, delivered, wakes, lateOps>>

\* WriteContext select: case result := <-resultCh
CtxReceive(i) ==
    /\ InSelect(i)
    /\ q[i].pc = "done"
    /\ call' = [call EXCEPT ![i] = "retResult"]
    /\ readers' = readers - 1
    /\ UNCHANGED <<lostBytes, setVars, openVars, mode, closed, fdOpen, status, clpc, clres, stopCloses, fdCloses, reqLimit, sigVars>>
    /\ UNCHANGED <<gateVars, histVars, q, nextId>>

\* the context is cancelled or its deadline passes while the call is in
\* progress: ctx.Done() becomes ready
CtxFire(i) ==
    /\ call[i] = "inWriteCtx"
    /\ call' = [call EXCEPT ![i] = IF q[i].pc = "done" THEN "ctxLater" ELSE "ctxFirst"]
    /\ UNCHANGED <<lostBytes, setVars, openVars, portVars, sigVars, status, gateVars, histVars, q, nextId>>

\* WriteContext select: case <-ctx.Done(): return 0, ctx.Err(); the helper
\* goroutine keeps running
CtxDone(i) ==
    /\ call[i] \in {"ctxFirst", "ctxLater"}
    /\ call' = [call EXCEPT ![i] = "retCtx"]
    /\ readers' = readers - 1
    /\ UNCHANGED <<lostBytes, setVars, openVars, mode, closed, fdOpen, status, clpc, clres, stopCloses, fdCloses, reqLimit, sigVars>>
    /\ UNCHANGED <<gateVars, histVars, q, nextId>>

(* ------------------- the gate's background goroutine ------------------- *)
\* pendingWrite.resultCh <- r; pendingWrite = nil
Deliver(r) ==
    /\ resultCh' = [resultCh EXCEPT ![pendingWrite] = r]
    /\ delivered' = delivered \cup {pendingWrite}
    /\ pendingWrite' = NoReq
    /\ wakes' = 0

\* the goroutine also receives while it holds a request waiting for CTS, and
\* puts the one it held back on the channel
MonReceiveSwap ==
    /\ monPc \in {"idle", "select"}
    /\ monPc = "idle" => pendingWrite = NoReq
    /\ writeCh # <<>>
    /\ pendingWrite' = Head(writeCh)
    /\ writeCh' = IF pendingWrite = NoReq THEN Tail(writeCh)
                  ELSE Append(Tail(writeCh), pendingWrite)
    /\ monPc' = "query"
    /\ UNCHANGED <<lostBytes, setVars, openVars, portVars, sigVars, status, waiter, resultCh, callVars, histVars>>

\* the goroutine takes the request and leaves it on the channel
MonReceivePeek ==
    /\ monPc = "idle"
    /\ pendingWrite = NoReq
    /\ writeCh # <<>>
    /\ pendingWrite' = Head(writeCh)
    /\ monPc' = "query"
    /\ UNCHANGED <<lostBytes, setVars, openVars, portVars, sigVars, status, writeCh, waiter, resultCh, callVars, histVars>>

\* first select, pendingWrite == nil: case req := <-c.writeCh
MonReceive ==
    /\ monPc = "idle"
    /\ pendingWrite = NoReq
    /\ writeCh # <<>>
    /\ pendingWrite' = Head(writeCh)
    /\ writeCh' = Tail(writeCh)
    /\ monPc' = "query"
    /\ UNCHANGED <<lostBytes, setVars, openVars, portVars, sigVars, status, waiter, resultCh, callVars, histVars>>

\* first select: case <-c.stopCh: return
MonStop ==
    /\ monPc = "idle"
    /\ Stopped
    /\ monPc' = "exited"
    /\ UNCHANGED <<lostBytes, setVars, openVars, portVars, sigVars, status, writeCh, pendingWrite, waiter, resultCh>>
    /\ UNCHANGED <<callVars, histVars>>

\* the goroutine always waits for an edge, whatever the status word says
AfterQueryAlwaysWait(st) == "select"

\* where the goroutine goes after a status query without error
AfterQuery(st) == IF HasBit(st, TIOCM_CTS) THEN "write" ELSE "select"

\* status, err := getModemStatus(c.fd) and the branch on it: an error is
\* delivered; CTS active leads to the write; otherwise the edge-wait
\* goroutine is started with a fresh done channel
MonQuery ==
    /\ monPc = "query"
    /\ lateOps' = Late("status")
    /\ \E e \in StatusOutcomes :
        IF e # Nil
        THEN /\ Deliver(Result(0, e))
             /\ monPc' = "idle"
             /\ UNCHANGED waiter
        ELSE /\ monPc' = AfterQuery(status)
             /\ waiter' = IF AfterQuery(status) = "select" THEN "starting" ELSE waiter
             /\ UNCHANGED <<pendingWrite, resultCh, delivered, wakes>>
    /\ UNCHANGED <<lostBytes, setVars, openVars, portVars, sigVars, status, writeCh, callVars>>
    /\ UNCHANGED <<accepted, written>>

\* a failed write is not delivered: the goroutine keeps the request and goes
\* back to the status query
MonWriteRetry ==
    /\ monPc = "write"
    /\ \E r \in WriteOutcomes(reqLen[pendingWrite]) :
         IF r.err = Nil
         THEN /\ Deliver(r)
              /\ monPc' = "idle"
         ELSE /\ monPc' = "query"
              /\ UNCHANGED <<pendingWrite, resultCh, delivered, wakes>>
    /\ written' = Append(written, pendingWrite)
    /\ lateOps' = Late("write")
    /\ UNCHANGED <<lostBytes, setVars, openVars, portVars, sigVars, status, writeCh, waiter, callVars, accepted>>

\* n, err := unix.Write(c.fd, pendingWrite.data); the result is delivered
MonWrite ==
    /\ monPc = "write"
    /\ \E r \in WriteOutcomes(reqLen[pendingWrite]) : Deliver(r)
    /\ written' = Append(written, pendingWrite)
    /\ lateOps' = Late("write")
    /\ monPc' = "idle"
    /\ UNCHANGED <<lostBytes, setVars, openVars, portVars, sigVars, status, writeCh, waiter, callVars, accepted>>

\* the edge-wait goroutine enters waitForCTSChange (TIOCMIWAIT); on a closed
\* descriptor the ioctl fails at once and the error is sent on done
WaiterStart ==
    /\ waiter = "starting"
    /\ waiter' = IF fdOpen THEN "waiting" ELSE "doneErr"
    /\ UNCHANGED <<lostBytes, setVars, openVars, portVars, sigVars, status, writeCh, pendingWrite, monPc, resultCh>>
    /\ UNCHANGED <<callVars, histVars>>

\* TIOCMIWAIT fails (device error, interrupted call): done <- err
WaiterFail ==
    /\ waiter = "waiting"
    /\ waiter' = "doneErr"
    /\ UNCHANGED <<lostBytes, setVars, openVars, portVars, sigVars, status, writeCh, pendingWrite, monPc, resultCh>>
    /\ UNCHANGED <<callVars, histVars>>

\* the peer toggles input line b; every goroutine blocked in TIOCMIWAIT with
\* that line in its bitmask returns nil: the gate's edge-wait goroutine sends
\* nil on done, a signal wait's goroutine goes on to read the new status
EnvToggle(b) ==
    /\ status' = Toggle(status, b)
    /\ waiter' = IF waiter = "waiting" /\ b = TIOCM_CTS THEN "doneOk" ELSE waiter
    /\ sig' = [s \in SigCalls |->
                 IF sig[s].go = "waiting" /\ HasBit(signalMaskToTIOCM(sig[s].mask), b)
                 THEN [sig[s] EXCEPT !.go = "woken"] ELSE sig[s]]
    /\ UNCHANGED <<lostBytes, setVars, openVars, portVars, lastOp, rd, writeCh, pendingWrite, monPc, resultCh>>
    /\ UNCHANGED <<callVars, histVars>>

\* after a wake without error the goroutine takes CTS to be active and goes
\* to the write without a new status query
MonWakeNoRequery ==
    /\ monPc = "select"
    /\ waiter \in {"doneOk", "doneErr"}
    /\ waiter' = "none"
    /\ IF waiter = "doneErr"
       THEN /\ Deliver(Result(0, Errno))
            /\ monPc' = "exited"
       ELSE /\ monPc' = "write"
            /\ wakes' = IF wakes < MaxWakes THEN wakes + 1 ELSE wakes
            /\ UNCHANGED <<pendingWrite, resultCh, delivered>>
    /\ UNCHANGED <<lostBytes, setVars, openVars, portVars, sigVars, status, writeCh, callVars>>
    /\ UNCHANGED <<accepted, written, lateOps>>

\* the select also has a timer case, after which the goroutine loops back to
\* the status query and leaves the edge-wait goroutine where it is
MonWakeOnTimer ==
    /\ monPc = "select"
    /\ IF waiter = "doneErr"
       THEN /\ Deliver(Result(0, Errno))
            /\ monPc' = "exited"
            /\ waiter' = "none"
       ELSE /\ monPc' = "query"
            /\ waiter' = IF waiter = "doneOk" THEN "none" ELSE waiter
            /\ wakes' = IF wakes < MaxWakes THEN wakes + 1 ELSE wakes
            /\ UNCHANGED <<pendingWrite, resultCh, delivered>>
    /\ UNCHANGED <<lostBytes, setVars, openVars, portVars, sigVars, status, writeCh, callVars>>
    /\ UNCHANGED <<accepted, written, lateOps>>

\* second select: case err := <-done: an error is delivered and the
\* goroutine returns; otherwise it loops back to the status query
MonWake ==
    /\ monPc = "select"
    /\ waiter \in {"doneOk", "doneErr"}
    /\ waiter' = "none"
    /\ IF waiter = "doneErr"
       THEN /\ Deliver(Result(0, Errno))
            /\ monPc' = "exited"
       ELSE /\ monPc' = "query"
            /\ wakes' = IF wakes < MaxWakes THEN wakes + 1 ELSE wakes
            /\ UNCHANGED <<pendingWrite, resultCh, delivered>>
    /\ UNCHANGED <<lostBytes, setVars, openVars, portVars, sigVars, status, writeCh, callVars>>
    /\ UNCHANGED <<accepted, written, lateOps>>

\* the goroutine returns on stopCh without a word to the pending write
MonSelectStopSilent ==
    /\ monPc = "select"
    /\ Stopped
    /\ pendingWrite' = NoReq
    /\ monPc' = "exited"
    /\ UNCHANGED <<lostBytes, setVars, openVars, portVars, sigVars, status, writeCh, waiter, callVars>>
    /\ UNCHANGED <<resultCh, histVars>>

\* second select: case <-c.stopCh: ErrPortClosed to the pending write, return;
\* the edge-wait goroutine is left behind
MonSelectStop ==
    /\ monPc = "select"
    /\ Stopped
    /\ Deliver(Result(0, ErrPortClosed))
    /\ monPc' = "exited"
    /\ UNCHANGED <<lostBytes, setVars, openVars, portVars, sigVars, status, writeCh, waiter, callVars>>
    /\ UNCHANGED <<accepted, written, lateOps>>

(* ------------------ WaitForSignalChange(Context) ----------------------- *)
\* the closed check made before the mask check
SigEntryClosedFirst(mask, isClosed, ctxDone) ==
    IF isClosed THEN ErrPortClosed
    ELSE IF mask = 0 THEN ErrInvalidSignalMask
    ELSE IF ctxDone THEN CtxErr
    ELSE Nil

\* the checks a signal wait makes before it touches the descriptor, in the
\* order of the code: the mask, then p.closed under the read lock, then (the
\* context variant) ctx.Done(); Nil when all pass
SigEntry(mask, isClosed, ctxDone) ==
    IF mask = 0 THEN ErrInvalidSignalMask
    ELSE IF isClosed THEN ErrPortClosed
    ELSE IF ctxDone THEN CtxErr
    ELSE Nil

\* the call keeps the read lock when it goes on to wait
SigCallKeepsLock(s) ==
    /\ sig[s].pc = "none"
    /\ IF s = 1 THEN TRUE ELSE sig[s - 1].pc # "none"
    /\ \E mask \in SigMasks, ctxv \in BOOLEAN, ctxDone \in BOOLEAN :
        /\ ctxDone => ctxv
        /\ mask # 0 => CanRLock
        /\ LET e == SigEntry(mask, closed, ctxDone) IN
           /\ sig' = [sig EXCEPT ![s] =
                        IF e = Nil
                        THEN [NoSig EXCEPT !.pc = "snap", !.ctx = ctxv, !.mask = mask]
                        ELSE [NoSig EXCEPT !.pc = "done", !.ctx = ctxv, !.mask = mask,
                                           !.atClosed = closed, !.atCtxDone = ctxDone,
                                           !.res = SigResult(NoSignals, 0, e)]]
           /\ readers' = IF e = Nil THEN readers + 1 ELSE readers
    /\ UNCHANGED <<lostBytes, setVars, openVars, mode, closed, fdOpen, clpc, clres, stopCloses, fdCloses,
                   reqLimit, status, gateVars, callVars, histVars, lastOp, rd>>

\* the call of WaitForSignalChange (ctxv FALSE) or WaitForSignalChangeContext
\* (ctxv TRUE) up to the point where the read lock is released
SigCall(s) ==
    /\ sig[s].pc = "none"
    /\ IF s = 1 THEN TRUE ELSE sig[s - 1].pc # "none"
    /\ \E mask \in SigMasks, ctxv \in BOOLEAN, ctxDone \in BOOLEAN :
        /\ ctxDone => ctxv
        /\ mask # 0 => CanRLock
        /\ LET e == SigEntry(mask, closed, ctxDone) IN
           sig' = [sig EXCEPT ![s] =
                     IF e = Nil
                     THEN [NoSig EXCEPT !.pc = "snap", !.ctx = ctxv, !.mask = mask]
                     ELSE [NoSig EXCEPT !.pc = "done", !.ctx = ctxv, !.mask = mask,
                                        !.atClosed = closed, !.atCtxDone = ctxDone,
                                        !.res = SigResult(NoSignals, 0, e)]]
    /\ UNCHANGED <<lostBytes, setVars, openVars, portVars, status, gateVars, callVars, histVars, lastOp, rd>>

\* oldStatus, err := getModemStatus(fd); on success the goroutine that runs
\* the edge-wait is started
SigSnapshot(s) ==
    /\ sig[s].pc = "snap"
    /\ \E e \in StatusOutcomes :
        sig' = [sig EXCEPT ![s] =
                  IF e # Nil
                  THEN [@ EXCEPT !.pc = "done", !.touched = TRUE,
                                 !.res = SigResult(NoSignals, 0, e)]
                  ELSE [@ EXCEPT !.pc = "racing", !.touched = TRUE,
                                 !.old = status, !.go = "start"]]
    /\ UNCHANGED <<lostBytes, setVars, openVars, portVars, status, gateVars, callVars, histVars, lastOp, rd>>

\* the goroutine enters unix.IoctlSetInt(fd, unix.TIOCMIWAIT, tiocmBits); on
\* a closed descriptor it fails at once
SigGoStart(s) ==
    /\ sig[s].go = "start"
    /\ sig' = [sig EXCEPT ![s].go = IF fdOpen THEN "waiting" ELSE "resErr"]
    /\ UNCHANGED <<lostBytes, setVars, openVars, portVars, status, gateVars, callVars, histVars, lastOp, rd>>

\* TIOCMIWAIT fails: resultCh <- waitResult{err: err}
SigGoFail(s) ==
    /\ sig[s].go = "waiting"
    /\ sig' = [sig EXCEPT ![s].go = "resErr"]
    /\ UNCHANGED <<lostBytes, setVars, openVars, portVars, status, gateVars, callVars, histVars, lastOp, rd>>

\* after the wake: newStatus, err := getModemStatus(fd); resultCh <- ...
SigGoRead(s) ==
    /\ sig[s].go = "woken"
    /\ \E e \in StatusOutcomes :
        sig' = [sig EXCEPT ![s] =
                  IF e # Nil THEN [@ EXCEPT !.go = "resErr"]
                  ELSE [@ EXCEPT !.go = "resOk", !.new = status]]
    /\ UNCHANGED <<lostBytes, setVars, openVars, portVars, status, gateVars, callVars, histVars, lastOp, rd>>

\* select: case result := <-resultCh
SigReturn(s) ==
    /\ sig[s].pc = "racing"
    /\ sig[s].go \in {"resOk", "resErr"}
    /\ sig' = [sig EXCEPT ![s] =
                 [@ EXCEPT !.pc = "done", !.go = "gone",
                    !.res = IF sig[s].go = "resErr"
                            THEN SigResult(NoSignals, 0, Errno)
                            ELSE SigResult(Signals(sig[s].new),
                                           detectSignalChanges(sig[s].old, sig[s].new),
                                           Nil)]]
    /\ UNCHANGED <<lostBytes, setVars, openVars, portVars, status, gateVars, callVars, histVars, lastOp, rd>>

\* the timer or the context ends the goroutine with the call
SigTimeoutKills(s) ==
    /\ sig[s].pc = "racing"
    /\ sig' = [sig EXCEPT ![s] =
                 [@ EXCEPT !.pc = "done", !.go = "gone",
                    !.res = SigResult(NoSignals, 0,
                                      IF sig[s].ctx THEN CtxErr ELSE ErrSignalTimeout)]]
    /\ UNCHANGED <<lostBytes, setVars, openVars, portVars, status, gateVars, callVars, histVars, lastOp, rd>>

\* both variants report the lost race as ErrSignalTimeout
SigTimeoutOneError(s) ==
    /\ sig[s].pc = "racing"
    /\ sig' = [sig EXCEPT ![s] =
                 [@ EXCEPT !.pc = "done",
                    !.res = SigResult(NoSignals, 0, ErrSignalTimeout)]]
    /\ UNCHANGED <<lostBytes, setVars, openVars, portVars, status, gateVars, callVars, histVars, lastOp, rd>>

\* select: case <-timer.C (ErrSignalTimeout) or case <-ctx.Done() (ctx.Err());
\* the goroutine is left running
SigTimeout(s) ==
    /\ sig[s].pc = "racing"
    /\ sig' = [sig EXCEPT ![s] =
                 [@ EXCEPT !.pc = "done",
                    !.res = SigResult(NoSignals, 0,
                                      IF sig[s].ctx THEN CtxErr ELSE ErrSignalTimeout)]]
    /\ UNCHANGED <<lostBytes, setVars, openVars, portVars, status, gateVars, callVars, histVars, lastOp, rd>>

(* ------------------------- the short operations ------------------------ *)
\* SetRTS and SetDTR share the lock with the readers
TakesWriteLockNever(op) == FALSE

\* SetRTS and SetDTR take p.mu.Lock(), the others p.mu.RLock()
TakesWriteLock(op) == op \in {"SetRTS", "SetDTR"}
\* FlushOutput goes to the ioctl without looking at p.closed
ChecksClosedButFlushOutput(op) == op # "FlushOutput"

\* every operation starts with: if p.closed { return ErrPortClosed }
ChecksClosed(op) == TRUE
\* the value of the getters
FlagOf(op, st) ==
    CASE op = "GetCTSStatus" -> HasBit(st, TIOCM_CTS)
      [] op = "GetRTS" -> HasBit(st, TIOCM_RTS)
      [] op = "GetDTR" -> HasBit(st, TIOCM_DTR)
      [] OTHER -> FALSE
\* the ModemSignals GetModemSignals returns
SignalsOf(op, st) == IF op = "GetModemSignals" THEN Signals(st) ELSE NoSignals

\* the word written back holds nothing but the line that is set
StatusAfterClobber(op, state, st) ==
    CASE op = "SetRTS" -> IF state THEN TIOCM_RTS ELSE 0
      [] op = "SetDTR" -> IF state THEN TIOCM_DTR ELSE 0
      [] OTHER -> st

\* the status word SetRTS(state) / SetDTR(state) write back with TIOCMSET
StatusAfter(op, state, st) ==
    CASE op = "SetRTS" -> IF state THEN SetBit(st, TIOCM_RTS) ELSE ClearBit(st, TIOCM_RTS)
      [] op = "SetDTR" -> IF state THEN SetBit(st, TIOCM_DTR) ELSE ClearBit(st, TIOCM_DTR)
      [] OTHER -> st

\* one call of a short operation: lock, closed check, the system call(s)
ShortOp(op) ==
    /\ IF TakesWriteLock(op) THEN CanLock ELSE CanRLock
    /\ \E state \in (IF TakesWriteLock(op) THEN BOOLEAN ELSE {FALSE}) :
        IF closed /\ ChecksClosed(op)
        THEN /\ lastOp' = [op |-> op, arg |-> state, closedAtCall |-> closed,
                           touched |-> FALSE, err |-> ErrPortClosed, val |-> FALSE,
                           signals |-> NoSignals, n |-> 0]
             /\ UNCHANGED status
        ELSE \E e \in StatusOutcomes :
             /\ lastOp' = [op |-> op, arg |-> state, closedAtCall |-> closed,
                           touched |-> TRUE, err |-> e,
                           val |-> IF e = Nil THEN FlagOf(op, status) ELSE FALSE,
                           signals |-> IF e = Nil THEN SignalsOf(op, status)
                                       ELSE NoSignals,
                           n |-> 0]
             /\ status' = IF e = Nil THEN StatusAfter(op, state, status) ELSE status
    /\ UNCHANGED <<lostBytes, setVars, openVars, portVars, gateVars, callVars, histVars, sig, rd>>

(* ------------------- SetRTS and SetDTR, step by step ------------------- *)
\* TIOCMSET: the kernel takes the output lines RTS and DTR from the word it is
\* given; the input lines stay what the peer drives
TIOCMSET(word, st) ==
    LET rts == IF HasBit(word, TIOCM_RTS) THEN SetBit(st, TIOCM_RTS)
               ELSE ClearBit(st, TIOCM_RTS)
    IN IF HasBit(word, TIOCM_DTR) THEN SetBit(rts, TIOCM_DTR) ELSE ClearBit(rts, TIOCM_DTR)

\* the call returns e: defer p.mu.Unlock()
SetReturn(t, e) ==
    /\ set' = [set EXCEPT ![t] = [@ EXCEPT !.pc = "done", !.err = e]]
    /\ readers' = IF set[t].write THEN readers ELSE readers - 1

\* SetRTS(state) / SetDTR(state) is called: p.mu.Lock() requested
SetCall(t) ==
    /\ set[t].pc \in {"idle", "done"}
    /\ setCalls < MaxSetCalls
    /\ setCalls' = setCalls + 1
    /\ \E op \in {"SetRTS", "SetDTR"}, state \in BOOLEAN :
         set' = [set EXCEPT ![t] = [NoSet EXCEPT !.pc = "waiting", !.op = op, !.arg = state,
                                                 !.write = TakesWriteLock(op)]]
    /\ UNCHANGED <<lineSet, openVars, portVars, status, gateVars, callVars, histVars, sigVars, lostBytes>>

\* the lock is acquired; if p.closed { return ErrPortClosed }
SetAcquire(t) ==
    /\ set[t].pc = "waiting"
    /\ IF set[t].write THEN CanLock ELSE CanRLock
    /\ IF closed
       THEN /\ set' = [set EXCEPT ![t] = [@ EXCEPT !.pc = "done", !.err = ErrPortClosed]]
            /\ UNCHANGED readers
       ELSE /\ set' = [set EXCEPT ![t].pc = "locked"]
            /\ readers' = IF set[t].write THEN readers ELSE readers + 1
    /\ UNCHANGED <<setCalls, lineSet, openVars, mode, closed, fdOpen, status, clpc, clres,
                   stopCloses, fdCloses, reqLimit>>
    /\ UNCHANGED <<gateVars, callVars, histVars, sigVars, lostBytes>>

\* status, err := unix.IoctlGetInt(p.fd, unix.TIOCMGET), and the bit of the
\* line set or cleared in the local word
SetRead(t) ==
    /\ set[t].pc = "locked"
    /\ \E e \in StatusOutcomes :
         IF e # Nil
         THEN SetReturn(t, e)
         ELSE /\ set' = [set EXCEPT ![t] =
                          [@ EXCEPT !.pc = "read",
                                    !.status = StatusAfter(set[t].op, set[t].arg, status)]]
              /\ UNCHANGED readers
    /\ UNCHANGED <<setCalls, lineSet, openVars, mode, closed, fdOpen, status, clpc, clres,
                   stopCloses, fdCloses, reqLimit>>
    /\ UNCHANGED <<gateVars, callVars, histVars, sigVars, lostBytes>>

\* return unix.IoctlSetPointerInt(p.fd, unix.TIOCMSET, status)
SetWrite(t) ==
    /\ set[t].pc = "read"
    /\ \E e \in StatusOutcomes :
         /\ SetReturn(t, e)
         /\ status' = IF e = Nil THEN TIOCMSET(set[t].status, status) ELSE status
         /\ lineSet' =
              IF e # Nil THEN lineSet
              ELSE IF set[t].op = "SetRTS"
              THEN [lineSet EXCEPT !.RTS = IF set[t].arg THEN "true" ELSE "false"]
              ELSE [lineSet EXCEPT !.DTR = IF set[t].arg THEN "true" ELSE "false"]
    /\ UNCHANGED <<setCalls, openVars, mode, closed, fdOpen, clpc, clres,
                   stopCloses, fdCloses, reqLimit>>
    /\ UNCHANGED <<gateVars, callVars, histVars, sigVars, lostBytes>>

(* ------------------------------ ReadContext ---------------------------- *)
\* ReadContext(ctx, buf): RLock, closed check, ctx.Done() check, then a
\* goroutine runs unix.Read
ReadContextCall ==
    /\ rd = NoRead
    /\ CanRLock
    /\ \E ctxDone \in BOOLEAN :
        LET e == CtxEntry(closed, ctxDone) IN
        IF e # Nil
        THEN /\ lastOp' = [op |-> "ReadContext", arg |-> ctxDone, closedAtCall |-> closed,
                           touched |-> FALSE, err |-> e,
                           val |-> FALSE, signals |-> NoSignals, n |-> 0]
             /\ UNCHANGED <<rd, readers>>
        ELSE /\ rd' = [pc |-> "inCall", go |-> "reading", ctx |-> ctxDone, n |-> 0]
             /\ readers' = readers + 1
             /\ UNCHANGED lastOp
    /\ UNCHANGED <<lostBytes, setVars, openVars, mode, closed, fdOpen, status, clpc, clres, stopCloses, fdCloses, reqLimit>>
    /\ UNCHANGED <<gateVars, callVars, histVars, sig>>

\* unix.Read(p.fd, buf): n = -1 and an error on a closed descriptor, else n in
\* 0..len(buf) (0 when the read timeout passes without data) or n = -1 and an
\* error
ReadOutcomes ==
    IF fdOpen
    THEN {Result(n, Nil) : n \in 0..MaxLen} \cup {Result(0 - 1, Errno)}
    ELSE {Result(0 - 1, Errno)}

\* the goroutine: n, err := unix.Read(p.fd, buf); resultCh <- ...; after
\* ReadContext has returned no one receives from resultCh
ReadGo ==
    /\ rd.go = "reading"
    /\ \E r \in ReadOutcomes :
        /\ rd' = IF rd.pc = "inCall" THEN [rd EXCEPT !.go = r.err, !.n = r.n] ELSE NoRead
        /\ lostBytes' = IF rd.pc # "inCall" /\ r.n > 0 THEN r.n ELSE lostBytes
    /\ UNCHANGED <<setVars, openVars, portVars, status, gateVars, callVars, histVars, sig, lastOp>>

\* select: case result := <-resultCh
ReadCtxReceive ==
    /\ rd.pc = "inCall"
    /\ rd.go \in {Nil, Errno}
    /\ lastOp' = [op |-> "ReadContext", arg |-> rd.ctx, closedAtCall |-> FALSE,
                  touched |-> TRUE, err |-> rd.go, val |-> FALSE,
                  signals |-> NoSignals, n |-> rd.n]
    /\ rd' = NoRead
    /\ readers' = readers - 1
    /\ UNCHANGED <<lostBytes, setVars, openVars, mode, closed, fdOpen, status, clpc, clres, stopCloses, fdCloses, reqLimit>>
    /\ UNCHANGED <<gateVars, callVars, histVars, sig>>

\* select: case <-ctx.Done(); the read goroutine is left running, and a
\* result it has already sent stays in resultCh
ReadCtxDone ==
    /\ rd.pc = "inCall"
    /\ lastOp' = [op |-> "ReadContext", arg |-> rd.ctx, closedAtCall |-> FALSE,
                  touched |-> TRUE, err |-> CtxErr, val |-> FALSE,
                  signals |-> NoSignals, n |-> 0]
    /\ rd' = IF rd.go = "reading" THEN [NoRead EXCEPT !.go = "reading"] ELSE NoRead
    /\ lostBytes' = IF rd.go = Nil /\ rd.n > 0 THEN rd.n ELSE lostBytes
    /\ readers' = readers - 1
    /\ UNCHANGED <<setVars, openVars, mode, closed, fdOpen, status, clpc, clres, stopCloses, fdCloses, reqLimit>>
    /\ UNCHANGED <<gateVars, callVars, histVars, sig>>

(* --------------------------------- Open -------------------------------- *)
\* Open returns (nil, e)
OpenFails(e) == opn' = [opn EXCEPT !.pc = "done", !.err = e]

\* for _, opt := range opts: one option is applied to the Config; its error
\* ends Open
OpenOption ==
    /\ opn.pc = "opts"
    /\ opn.nopts < MaxOpts
    /\ \E o \in OptionCalls(config) :
         /\ config' = o.res.cfg
         /\ opn' = [opn EXCEPT !.nopts = @ + 1, !.opt = o.name, !.arg = o.arg,
                               !.optErr = o.res.err,
                               !.pc = IF o.res.err = Nil THEN "opts" ELSE "done",
                               !.err = IF o.res.err = Nil THEN "none" ELSE o.res.err]
    /\ UNCHANGED <<portVars, status, gateVars, callVars, histVars, sigVars, setVars, lostBytes>>

\* only the CTS mode needs InitialRTS
ValidateFlowControlCTSOnly(c) ==
    IF c.FlowControl = FlowControlCTS /\ c.InitialRTS = "nil" THEN ErrCTSNeedsInitialRTS
    ELSE Nil

\* "Validate flow control configuration"
ValidateFlowControl(c) ==
    IF c.FlowControl = FlowControlCTS /\ c.InitialRTS = "nil" THEN ErrCTSNeedsInitialRTS
    ELSE IF c.FlowControl = FlowControlRTSCTS /\ c.InitialRTS = "nil"
    THEN ErrRTSCTSNeedsInitialRTS
    ELSE Nil

\* the options are all applied: the flow-control validation
OpenValidate ==
    /\ opn.pc = "opts"
    /\ IF ValidateFlowControl(config) # Nil
       THEN OpenFails(ValidateFlowControl(config))
       ELSE opn' = [opn EXCEPT !.pc = "open"]
    /\ UNCHANGED <<config, portVars, status, gateVars, callVars, histVars, sigVars, setVars, lostBytes>>

\* fd, err := unix.Open(device, flags, 0)
OpenDevice ==
    /\ opn.pc = "open"
    /\ \E ok \in BOOLEAN :
         IF ok
         THEN /\ opn' = [opn EXCEPT !.pc = "configure", !.sysOpens = @ + 1]
              /\ fdOpen' = TRUE
         ELSE /\ OpenFails(ErrOpenFailed)
              /\ UNCHANGED fdOpen
    /\ UNCHANGED <<config, mode, closed, readers, clpc, clres, stopCloses, fdCloses, reqLimit>>
    /\ UNCHANGED <<status, gateVars, callVars, histVars, sigVars, setVars, lostBytes>>

\* configurePort(fd, config); on an error the descriptor is closed again
OpenConfigure ==
    /\ opn.pc = "configure"
    /\ \E e \in {Nil, Errno} :
         IF e = Nil
         THEN /\ opn' = [opn EXCEPT !.pc = IF config.InitialRTS # "nil" THEN "rts"
                                           ELSE IF config.InitialDTR # "nil" THEN "dtr"
                                           ELSE "finish"]
              /\ UNCHANGED fdOpen
         ELSE /\ OpenFails(ErrTermios)
              /\ fdOpen' = FALSE
    /\ UNCHANGED <<config, mode, closed, readers, clpc, clres, stopCloses, fdCloses, reqLimit>>
    /\ UNCHANGED <<status, gateVars, callVars, histVars, sigVars, setVars, lostBytes>>

\* setRTSSignal(fd, *config.InitialRTS): TIOCMGET, the RTS bit, TIOCMSET; the
\* driver may leave the line as it was
OpenInitialRTS ==
    /\ opn.pc = "rts"
    /\ \E e \in {Nil, Errno}, took \in BOOLEAN :
         IF e = Nil
         THEN /\ opn' = [opn EXCEPT !.pc = "verify"]
              /\ status' = IF took THEN StatusAfter("SetRTS", config.InitialRTS = "true", status)
                            ELSE status
              /\ UNCHANGED fdOpen
         ELSE /\ ~took
              /\ OpenFails(ErrSetInitialRTS)
              /\ fdOpen' = FALSE
              /\ UNCHANGED status
    /\ UNCHANGED <<config, mode, closed, readers, clpc, clres, stopCloses, fdCloses, reqLimit>>
    /\ UNCHANGED <<gateVars, callVars, histVars, sigVars, setVars, lostBytes>>

\* "Verify RTS was set": getModemStatus(fd) and the comparison of the RTS bit
OpenVerifyRTS ==
    /\ opn.pc = "verify"
    /\ \E e \in {Nil, Errno} :
         IF e # Nil
         THEN OpenFails(ErrVerifyInitialRTS) /\ fdOpen' = FALSE
         ELSE IF HasBit(status, TIOCM_RTS) # (config.InitialRTS = "true")
         THEN OpenFails(ErrInitialRTSMismatch) /\ fdOpen' = FALSE
         ELSE /\ opn' = [opn EXCEPT !.pc = IF config.InitialDTR # "nil" THEN "dtr"
                                           ELSE "finish"]
              /\ UNCHANGED fdOpen
    /\ UNCHANGED <<config, mode, closed, readers, clpc, clres, stopCloses, fdCloses, reqLimit>>
    /\ UNCHANGED <<status, gateVars, callVars, histVars, sigVars, setVars, lostBytes>>

\* setDTR(fd, *config.InitialDTR)
OpenInitialDTR ==
    /\ opn.pc = "dtr"
    /\ \E e \in {Nil, Errno} :
         IF e = Nil
         THEN /\ opn' = [opn EXCEPT !.pc = "finish"]
              /\ status' = StatusAfter("SetDTR", config.InitialDTR = "true", status)
              /\ UNCHANGED fdOpen
         ELSE /\ OpenFails(ErrSetInitialDTR)
              /\ fdOpen' = FALSE
              /\ UNCHANGED status
    /\ UNCHANGED <<config, mode, closed, readers, clpc, clres, stopCloses, fdCloses, reqLimit>>
    /\ UNCHANGED <<gateVars, callVars, histVars, sigVars, setVars, lostBytes>>

\* p := &port{fd, config, closed: false}; in CTS mode newCTSMonitor(fd) and
\* start(); return p, nil
OpenFinish ==
    /\ opn.pc = "finish"
    /\ opn' = [opn EXCEPT !.pc = "done", !.err = Nil]
    /\ mode' = config.FlowControl
    /\ monPc' = IF Gated(config.FlowControl) THEN "idle" ELSE "absent"
    /\ UNCHANGED <<config, closed, fdOpen, readers, clpc, clres, stopCloses, fdCloses, reqLimit>>
    /\ UNCHANGED <<status, writeCh, pendingWrite, waiter, resultCh>>
    /\ UNCHANGED <<callVars, histVars, sigVars, setVars, lostBytes>>

\* Open returned a port
Opened == opn.pc = "done" /\ opn.err = Nil

(* --------------------------- specification ----------------------------- *)
Init ==
    /\ \E m \in FlowControls : InitPort(m, 1, MaxReqs)
    /\ status \in {0, TIOCM_CTS}

Next ==
    \/ \E k \in Closers : CloseCall(k)
    \/ \E k \in Closers : CloseAcquire(k)
    \/ \E k \in Closers : CloseFd(k)
    \/ WriteCall
    \/ WriteContextCall
    \/ \E i \in Ids : QAccept(i)
    \/ \E i \in Ids : QEnqTimeout(i)
    \/ \E i \in Ids : QEnqStopped(i)
    \/ \E i \in Ids : QResult(i)
    \/ \E i \in Ids : QWaitTimeout(i)
    \/ \E i \in Ids : QWaitStopped(i)
    \/ \E i \in Ids : DirectWrite(i)
    \/ \E i \in Ids : CtxReceive(i)
    \/ \E i \in Ids : CtxFire(i)
    \/ \E i \in Ids : CtxDone(i)
    \/ MonReceive
    \/ MonStop
    \/ MonQuery
    \/ MonWrite
    \/ WaiterStart
    \/ WaiterFail
    \/ \E b \in {TIOCM_CTS} : EnvToggle(b)
    \/ MonWake
    \/ MonSelectStop

Spec == Init /\ [][Next]_vars

\* the gate's actions
GateNext ==
    \/ WriteCall
    \/ WriteContextCall
    \/ \E i \in Ids : QAccept(i)
    \/ \E i \in Ids : QEnqTimeout(i)
    \/ \E i \in Ids : QEnqStopped(i)
    \/ \E i \in Ids : QResult(i)
    \/ \E i \in Ids : QWaitTimeout(i)
    \/ \E i \in Ids : QWaitStopped(i)
    \/ \E i \in Ids : CtxReceive(i)
    \/ \E i \in Ids : CtxFire(i)
    \/ \E i \in Ids : CtxDone(i)
    \/ MonReceive
    \/ MonStop
    \/ MonQuery
    \/ MonWrite
    \/ WaiterStart
    \/ WaiterFail
    \/ MonWake
    \/ MonSelectStop

\* Close called by several goroutines while gated writes are in progress
InitClose ==
    /\ InitPort(FlowControlCTS, NClosers, CloseReqs)
    /\ status \in {0, TIOCM_CTS}

NextClose ==
    \/ \E k \in Closers : CloseCall(k)
    \/ \E k \in Closers : CloseAcquire(k)
    \/ \E k \in Closers : CloseFd(k)
    \/ \E b \in {TIOCM_CTS} : EnvToggle(b)
    \/ GateNext

SpecClose == InitClose /\ [][NextClose]_vars

\* one Close on a CTS-mode port with writers; the background goroutine takes
\* a step whenever it can, and a Close that has the lock goes on to unix.Close
InitStop ==
    /\ InitPort(FlowControlCTS, 1, CloseReqs)
    /\ status \in {0, TIOCM_CTS}

MonStep ==
    \/ MonReceive
    \/ MonStop
    \/ MonQuery
    \/ MonWrite
    \/ MonWake
    \/ MonSelectStop

SpecStop ==
    /\ InitStop
    /\ [][NextClose]_vars
    /\ WF_vars(MonStep)
    /\ WF_vars(\E k \in Closers : CloseFd(k))

\* a step that ends a call holding the read lock: the timer of queueWrite
\* fires, or WriteContext receives its helper's result
CallerStep ==
    \E i \in Ids : QEnqTimeout(i) \/ QWaitTimeout(i) \/ CtxReceive(i)

\* several goroutines Close while gated writes are in progress; every timer
\* fires in the end, the mutex is granted when it is free, and unix.Close
\* returns
SpecCloseFair ==
    /\ InitClose
    /\ [][NextClose]_vars
    /\ WF_vars(CallerStep)
    /\ WF_vars(\E k \in Closers : CloseAcquire(k))
    /\ WF_vars(\E k \in Closers : CloseFd(k))

\* the status words over the six modem lines
StatusWords ==
    {a + b + c + d + e + f :
        a \in {0, TIOCM_CTS}, b \in {0, TIOCM_DSR}, c \in {0, TIOCM_RI},
        d \in {0, TIOCM_CAR}, e \in {0, TIOCM_RTS}, f \in {0, TIOCM_DTR}}

\* detectSignalChanges called on a pair of status words, as its test calls
\* it; the arguments and the result are kept in the record of signal wait 1
DetectCall ==
    /\ sig[1].pc = "none"
    /\ \E oldStatus \in StatusWords, newStatus \in StatusWords :
         sig' = [sig EXCEPT ![1] =
                   [NoSig EXCEPT !.pc = "detect", !.old = oldStatus, !.new = newStatus,
                                 !.res = SigResult(NoSignals,
                                                   detectSignalChanges(oldStatus, newStatus),
                                                   Nil)]]
    /\ UNCHANGED <<lostBytes, setVars, openVars, portVars, status, gateVars, callVars, histVars, lastOp, rd>>

InitDetect ==
    /\ InitPort(FlowControlNone, 1, 0)
    /\ status = 0

NextDetect == DetectCall

SpecDetect == InitDetect /\ [][NextDetect]_vars

\* the SignalMask values (an int): every combination of the four lines, with
\* and without a bit that names no line, and -1
MaskValues == (0 - 1)..31

\* signalMaskToTIOCM called on two masks and on their union, as its test
\* calls it; the arguments and the results take the place of signal wait 1
MaskCall ==
    /\ sig[1].pc = "none"
    /\ \E a \in MaskValues, b \in MaskValues :
         sig' = [sig EXCEPT ![1] =
                   [pc |-> "tiocm", a |-> a, b |-> b,
                    bitsA |-> signalMaskToTIOCM(a),
                    bitsB |-> signalMaskToTIOCM(b),
                    bitsAB |-> signalMaskToTIOCM(BitOr(a, b))]]
    /\ UNCHANGED <<lostBytes, setVars, openVars, portVars, status, gateVars, callVars, histVars, lastOp, rd>>

InitMask ==
    /\ InitPort(FlowControlNone, 1, 0)
    /\ status = 0

NextMask == MaskCall

SpecMask == InitMask /\ [][NextMask]_vars

\* signal waits on a port whose input lines the peer toggles, with Close
InitSig ==
    /\ InitPort(FlowControlNone, 1, 0)
    /\ status = TIOCM_DTR

NextSig ==
    \/ \E k \in Closers : CloseCall(k)
    \/ \E k \in Closers : CloseAcquire(k)
    \/ \E k \in Closers : CloseFd(k)
    \/ \E b \in InputBits : EnvToggle(b)
    \/ \E s \in SigCalls : SigCall(s)
    \/ \E s \in SigCalls : SigSnapshot(s)
    \/ \E s \in SigCalls : SigGoStart(s)
    \/ \E s \in SigCalls : SigGoFail(s)
    \/ \E s \in SigCalls : SigGoRead(s)
    \/ \E s \in SigCalls : SigReturn(s)
    \/ \E s \in SigCalls : SigTimeout(s)

SpecSig == InitSig /\ [][NextSig]_vars

\* every operation of the port, with Close, on a CTS-mode port
InitOps ==
    /\ InitPort(FlowControlCTS, 1, OpsReqs)
    /\ status \in {0, TIOCM_CTS}

\* the calls the client goroutine has made
CallsMade ==
    (nextId - 1) + Cardinality({s \in SigCalls : sig[s].pc # "none"})
                 + (IF lastOp = NoOp THEN 0 ELSE 1)

\* the client goroutine makes its calls one after the other, MaxOps in all
Quiet ==
    /\ CallsMade < MaxOps
    /\ \A i \in Ids : call[i] \in {"none", "retResult", "retCtx"}
    /\ \A s \in SigCalls : sig[s].pc \in {"none", "done"}
    /\ rd.pc = "idle"

NextOps ==
    \/ \E k \in Closers : CloseCall(k)
    \/ \E k \in Closers : CloseAcquire(k)
    \/ \E k \in Closers : CloseFd(k)
    \/ \E b \in {TIOCM_CTS} : EnvToggle(b)
    \/ Quiet /\ WriteCall
    \/ Quiet /\ WriteContextCall
    \/ \E i \in Ids : QAccept(i)
    \/ \E i \in Ids : QEnqTimeout(i)
    \/ \E i \in Ids : QEnqStopped(i)
    \/ \E i \in Ids : QResult(i)
    \/ \E i \in Ids : QWaitTimeout(i)
    \/ \E i \in Ids : QWaitStopped(i)
    \/ \E i \in Ids : CtxReceive(i)
    \/ \E i \in Ids : CtxFire(i)
    \/ \E i \in Ids : CtxDone(i)
    \/ MonReceive
    \/ MonStop
    \/ MonQuery
    \/ MonWrite
    \/ WaiterStart
    \/ WaiterFail
    \/ MonWake
    \/ MonSelectStop
    \/ \E op \in ShortOps : Quiet /\ ShortOp(op)
    \/ Quiet /\ ReadContextCall
    \/ ReadGo
    \/ ReadCtxReceive
    \/ ReadCtxDone
    \/ \E s \in SigCalls : Quiet /\ SigCall(s)
    \/ \E s \in SigCalls : SigSnapshot(s)
    \/ \E s \in SigCalls : SigGoStart(s)
    \/ \E s \in SigCalls : SigGoFail(s)
    \/ \E s \in SigCalls : SigGoRead(s)
    \/ \E s \in SigCalls : SigReturn(s)
    \/ \E s \in SigCalls : SigTimeout(s)

SpecOps == InitOps /\ [][NextOps]_vars

\* the modem line getters and setters on a port whose input lines the peer
\* toggles, with Close
LineOps == {"GetCTSStatus", "GetModemSignals", "SetRTS", "GetRTS", "SetDTR", "GetDTR"}

InitLines ==
    /\ InitPort(FlowControlNone, 1, 0)
    /\ status = TIOCM_DTR

NextLines ==
    \/ \E k \in Closers : CloseCall(k)
    \/ \E k \in Closers : CloseAcquire(k)
    \/ \E k \in Closers : CloseFd(k)
    \/ \E b \in InputBits : EnvToggle(b)
    \/ \E op \in LineOps : ShortOp(op)

SpecLines == InitLines /\ [][NextLines]_vars

\* goroutines that call SetRTS and SetDTR while another makes one call of
\* ReadContext, the peer toggles CTS and the port is closed
InitSet ==
    /\ InitPort(FlowControlNone, 1, 0)
    /\ status \in {0, TIOCM_RTS + TIOCM_DTR}

NextSet ==
    \/ \E k \in Closers : CloseCall(k)
    \/ \E k \in Closers : CloseAcquire(k)
    \/ \E k \in Closers : CloseFd(k)
    \/ \E b \in {TIOCM_CTS} : EnvToggle(b)
    \/ \E t \in Setters : SetCall(t)
    \/ \E t \in Setters : SetAcquire(t)
    \/ \E t \in Setters : SetRead(t)
    \/ \E t \in Setters : SetWrite(t)
    \/ lastOp = NoOp /\ ReadContextCall
    \/ ReadGo
    \/ ReadCtxReceive
    \/ ReadCtxDone

SpecSet == InitSet /\ [][NextSet]_vars

\* Open from the default Config, then Close on the port it returns
InitOpen ==
    /\ config = DefaultConfig
    /\ opn = NoOpen
    /\ mode = DefaultConfig.FlowControl
    /\ reqLimit = 0
    /\ closed = FALSE
    /\ fdOpen = FALSE
    /\ status \in {0, TIOCM_RTS + TIOCM_DTR}
    /\ readers = 0
    /\ clpc = [k \in Closers |-> IF k <= 1 THEN "idle" ELSE "off"]
    /\ clres = [k \in Closers |-> "none"]
    /\ stopCloses = 0
    /\ fdCloses = 0
    /\ writeCh = <<>>
    /\ pendingWrite = NoReq
    /\ monPc = "absent"
    /\ waiter = "none"
    /\ resultCh = [i \in Ids |-> NoResult]
    /\ q = [i \in Ids |-> [pc |-> "none", res |-> NoResult]]
    /\ call = [i \in Ids |-> "none"]
    /\ nextId = 1
    /\ accepted = <<>>
    /\ written = <<>>
    /\ delivered = {}
    /\ lateOps = {}
    /\ wakes = 0
    /\ sig = [s \in SigCalls |-> NoSig]
    /\ lastOp = NoOp
    /\ rd = NoRead
    /\ set = [t \in Setters |-> NoSet]
    /\ setCalls = 0
    /\ lineSet = NoLineSet
    /\ lostBytes = 0

NextOpen ==
    \/ OpenOption
    \/ OpenValidate
    \/ OpenDevice
    \/ OpenConfigure
    \/ OpenInitialRTS
    \/ OpenVerifyRTS
    \/ OpenInitialDTR
    \/ OpenFinish
    \/ \E k \in Closers : Opened /\ CloseCall(k)
    \/ \E k \in Closers : CloseAcquire(k)
    \/ \E k \in Closers : CloseFd(k)
    \/ MonStop

SpecOpen == InitOpen /\ [][NextOpen]_vars

(* ----------------------------- properties ------------------------------ *)
\* the requests accepted into the gate whose result is not yet delivered:
\* those in the queue channel and the one the goroutine holds
Outstanding ==
    {i \in Ids : pendingWrite = i \/ \E j \in 1..Len(writeCh) : writeCh[j] = i}

\* C1: on a CTS-mode port the number of outstanding PendingWrites (accepted
\* into the gate, in the queue channel or held by the goroutine, no result
\* delivered yet) never exceeds 1
C1_AtMostOneOutstanding == Cardinality(Outstanding) <= 1

\* C2: the gate's goroutine never issues a status query or a write on the
\* descriptor after Close has closed it
C2_NoGateOpAfterClose == lateOps = {}

\* C3: gated writes are transmitted in the order in which they were accepted:
\* if A is accepted before B and both are transmitted, A is written first
C3_WrittenInAcceptanceOrder ==
    mode = FlowControlCTS =>
      \A a, b \in 1..Len(written) : \A c, d \in 1..Len(accepted) :
        (a < b /\ accepted[c] = written[a] /\ accepted[d] = written[b]) => c < d

\* two gated requests accepted one after the other, both transmitted
C3_Witness ==
    /\ mode = FlowControlCTS
    /\ accepted = <<1, 2>>
    /\ written = <<1, 2>>

\* C4: among any number of Close calls exactly one performs the close (one
\* close of the stop channel, one close of the descriptor, returning the result
\* of the descriptor close) and every other call returns ErrPortClosed
C4_ExactlyOneCloses ==
    /\ stopCloses <= 1
    /\ fdCloses <= 1
    /\ Cardinality({k \in Closers : clpc[k] = "done" /\ clres[k] # ErrPortClosed}) = fdCloses
    /\ (\E k \in Closers : clpc[k] = "done") => fdCloses = 1 /\ stopCloses = 1

\* every Close call has returned; the one that closed the descriptor got an
\* error from unix.Close
C4_Witness ==
    /\ \A k \in Closers : clpc[k] \in {"done", "off"}
    /\ Cardinality({k \in Closers : clpc[k] = "done"}) >= 2
    /\ \E k \in Closers : clres[k] = Errno
    /\ \E k \in Closers : clres[k] = ErrPortClosed

\* C5: once the port is marked closed, every call of Read, Write, ReadContext,
\* WriteContext, the signal getters and setters, the drain and flush
\* operations, and a signal wait with a non-zero mask returns ErrPortClosed
\* without touching the descriptor and without enqueuing anything in the gate
C5_ClosedPortRejects ==
    [][closed =>
        /\ lastOp' # lastOp => lastOp'.err = ErrPortClosed /\ ~lastOp'.touched
        /\ rd'.go = "reading" => rd.go = "reading"
        /\ \A i \in Ids :
             (call[i] = "none" /\ call'[i] # "none") =>
                /\ call'[i] = "retResult"
                /\ q'[i] = [pc |-> "done", res |-> Result(0, ErrPortClosed)]
                /\ UNCHANGED <<writeCh, accepted, written, lateOps>>
        /\ \A s \in SigCalls :
             (sig[s].pc = "none" /\ sig'[s].pc # "none" /\ sig'[s].mask # 0) =>
                /\ sig'[s].pc = "done"
                /\ sig'[s].res = SigResult(NoSignals, 0, ErrPortClosed)
                /\ ~sig'[s].touched
                /\ sig'[s].go = "none"
    ]_vars

\* a short operation was called on the closed port and was turned away
C5_Witness ==
    /\ closed
    /\ lastOp.closedAtCall
    /\ lastOp.op = "FlushOutput"
    /\ lastOp.err = ErrPortClosed

\* C6: a signal wait called with mask 0 returns ErrInvalidSignalMask before
\* any status query or edge-wait, also on a closed port and with a context
\* that is already cancelled
C6_ZeroMaskRejectedFirst ==
    \A s \in SigCalls :
      (sig[s].pc # "none" /\ sig[s].mask = 0) =>
         /\ sig[s].pc = "done"
         /\ sig[s].res = SigResult(NoSignals, 0, ErrInvalidSignalMask)
         /\ ~sig[s].touched
         /\ sig[s].go = "none"

\* mask 0 on a closed port with a cancelled context: ErrInvalidSignalMask
C6_Witness ==
    \E s \in SigCalls :
      /\ sig[s].mask = 0
      /\ sig[s].atClosed
      /\ sig[s].atCtxDone
      /\ sig[s].res.err = ErrInvalidSignalMask

\* C7: on a successful return of a signal wait with mask M the changed-mask
\* contains no line outside M
C7_ChangedWithinMask ==
    \A s \in SigCalls :
      (sig[s].pc = "done" /\ sig[s].res.err = Nil) =>
         \A b \in {SignalCTS, SignalDSR, SignalRI, SignalDCD} :
            HasBit(sig[s].res.changed, b) => HasBit(sig[s].mask, b)

\* C8: on a successful return of a signal wait a requested line is in the
\* changed-mask exactly when it differs between the before and the after
\* snapshot, and the returned ModemSignals is the after snapshot
C8_ChangedIsDifference ==
    \A s \in SigCalls :
      (sig[s].pc = "done" /\ sig[s].res.err = Nil) =>
         /\ \A p \in {<<SignalCTS, TIOCM_CTS>>, <<SignalDSR, TIOCM_DSR>>,
                      <<SignalRI, TIOCM_RI>>, <<SignalDCD, TIOCM_CAR>>} :
              HasBit(sig[s].mask, p[1]) =>
                (HasBit(sig[s].res.changed, p[1])
                   <=> (HasBit(sig[s].old, p[2]) # HasBit(sig[s].new, p[2])))
         /\ sig[s].res.signals = [CTS |-> HasBit(sig[s].new, TIOCM_CTS),
                                  DSR |-> HasBit(sig[s].new, TIOCM_DSR),
                                  RI |-> HasBit(sig[s].new, TIOCM_RI),
                                  DCD |-> HasBit(sig[s].new, TIOCM_CAR),
                                  RTS |-> HasBit(sig[s].new, TIOCM_RTS),
                                  DTR |-> HasBit(sig[s].new, TIOCM_DTR)]

\* mask DSR|DCD, only DCD differs between the snapshots: changed-mask is DCD
C8_Witness ==
    \E s \in SigCalls :
      /\ sig[s].pc = "done"
      /\ sig[s].res.err = Nil
      /\ sig[s].mask = SignalDSR + SignalDCD
      /\ HasBit(sig[s].old, TIOCM_DSR) = HasBit(sig[s].new, TIOCM_DSR)
      /\ sig[s].res.changed = SignalDCD
      /\ sig[s].res.signals.DCD

\* C9: a caller's timeout or cancellation after acceptance does not retract the
\* request: the request stays in the channel or with the goroutine unchanged,
\* and once the goroutine has seen CTS active with it, its data is written
C9_TimeoutDoesNotRetract ==
    [][\A i \in Ids :
        /\ (i \in Outstanding /\ ~Returned(i) /\ Returned(i)'
              /\ RetVal(i)'.err \in {ErrCTSTimeout, CtxErr})
             => UNCHANGED <<writeCh, pendingWrite, monPc, resultCh>>
        /\ (Returned(i) /\ pendingWrite = i /\ monPc = "query" /\ monPc' = "write")
             => pendingWrite' = i
        /\ (Returned(i) /\ pendingWrite = i /\ monPc = "write" /\ monPc' # "write")
             => written' = Append(written, i)
    ]_vars

\* the caller of request 1 has returned ErrCTSTimeout, and afterwards the
\* goroutine wrote its data in full
C9_Witness ==
    /\ call[1] = "retResult"
    /\ q[1].res = Result(0, ErrCTSTimeout)
    /\ written = <<1>>
    /\ resultCh[1] = Result(reqLen[1], Nil)

\* C10: when the goroutine's status query shows CTS active it goes to the write
\* without starting an edge-wait, delivers the write's (n, err) to the caller
\* and returns to waiting for the next request
C10_WritesAtOnceWhenCTSActive ==
    [][/\ (monPc = "query" /\ monPc' # "query" /\ HasBit(status, TIOCM_CTS)) =>
            \/ /\ monPc' = "write"
               /\ UNCHANGED <<waiter, pendingWrite, resultCh, written>>
            \/ /\ monPc' = "idle"
               /\ resultCh'[pendingWrite] = Result(0, Errno)
       /\ (monPc = "write" /\ monPc' # "write") =>
            /\ monPc' = "idle"
            /\ pendingWrite' = NoReq
            /\ resultCh'[pendingWrite] \in WriteOutcomes(reqLen[pendingWrite])
            /\ written' = Append(written, pendingWrite)
            /\ UNCHANGED <<waiter, writeCh>>
    ]_vars

\* request 1 was written in full, its result is with the caller, no edge-wait
\* goroutine is around and the goroutine is back at its first select
C10_Witness ==
    /\ monPc = "idle"
    /\ pendingWrite = NoReq
    /\ waiter = "none"
    /\ written = <<1>>
    /\ call[1] = "retResult"
    /\ q[1].res = Result(reqLen[1], Nil)

\* C11: no CTS-active transition is missed between the status query that read
\* CTS inactive and the start of the edge-wait, so that a request accepted
\* while CTS is inactive is written once CTS becomes and stays active: the
\* goroutine never sits in the edge-wait with CTS active
C11_NoMissedEdge ==
    ~(/\ monPc = "select"
      /\ pendingWrite # NoReq
      /\ waiter = "waiting"
      /\ HasBit(status, TIOCM_CTS)
      /\ fdOpen
      /\ ~Stopped)

\* C12: in WriteContext on a CTS-mode port, when the context is done before
\* the CTS timeout of the call's queueWrite fires, the call returns the
\* context's error, never ErrCTSTimeout
C12_ContextBeatsCTSTimeout ==
    [][\A i \in Ids :
         (call[i] = "ctxFirst" /\ Returned(i)') => RetVal(i)'.err # ErrCTSTimeout
    ]_vars

\* C13: when Close is called on the port while the caller of a gated write is
\* blocked waiting for its request to be accepted or for the transmission
\* result, that caller returns ErrPortClosed
C13_CloseInterruptsWaitingWriter ==
    [][\A i \in Ids :
         (/\ call[i] = "inWrite"
          /\ q[i].pc \in {"enq", "wait"}
          /\ \E k \in Closers : clpc[k] = "waiting"
          /\ Returned(i)')
         => RetVal(i)'.err = ErrPortClosed
    ]_vars

\* the shutdown of the gate never happens while a Write or WriteContext call
\* is in progress: Close waits for the write lock
NoShutdownDuringCall ==
    \A i \in Ids : InCall(i) => ~Stopped /\ ~closed

\* C14: when the status query or the write fails while a request is pending,
\* the goroutine delivers the error to that request at once (n = 0 for the
\* query, the write's n for the write), drops the request, and never queries
\* for it or transmits it again
C14_ErrorDeliveredNoRetry ==
    [][/\ (monPc = "query" /\ monPc' = "idle") =>
            /\ resultCh'[pendingWrite] = Result(0, Errno)
            /\ pendingWrite' = NoReq
            /\ UNCHANGED <<written, writeCh>>
       /\ (monPc = "write" /\ monPc' # "write") =>
            /\ pendingWrite \in delivered'
            /\ pendingWrite' = NoReq
            /\ resultCh'[pendingWrite].err # Nil => resultCh'[pendingWrite].n = 0 - 1
       /\ \A i \in delivered :
            /\ pendingWrite' # i
            /\ \A j \in 1..Len(writeCh') : writeCh'[j] # i
            /\ written' # written => written'[Len(written')] # i
    ]_vars

\* the write of request 1 failed on the open descriptor; the error is in the
\* request's result channel and the goroutine is back at its first select
C14_Witness ==
    /\ fdOpen
    /\ monPc = "idle"
    /\ pendingWrite = NoReq
    /\ written = <<1>>
    /\ resultCh[1] = Result(0 - 1, Errno)

\* C15: when the edge-wait returns without error the goroutine queries the
\* status again, and when that shows CTS still inactive it keeps the same
\* request, delivers nothing for it and starts another edge-wait, any number
\* of times
C15_SpuriousWakeRetried ==
    [][/\ (monPc = "select" /\ waiter = "doneOk" /\ waiter' = "none") =>
            /\ monPc' = "query"
            /\ UNCHANGED <<pendingWrite, resultCh, delivered, written>>
       /\ (monPc = "query" /\ monPc' # "query" /\ ~HasBit(status, TIOCM_CTS)) =>
            \/ /\ monPc' = "select"
               /\ waiter' = "starting"
               /\ UNCHANGED <<pendingWrite, resultCh, delivered, written>>
            \/ /\ monPc' = "idle"
               /\ resultCh'[pendingWrite] = Result(0, Errno)
    ]_vars

\* the edge-wait has returned twice with CTS inactive at the re-query, and the
\* goroutine is in its third edge-wait with the same request, nothing delivered
C15_Witness ==
    /\ wakes = 2
    /\ monPc = "select"
    /\ waiter = "waiting"
    /\ pendingWrite = 1
    /\ ~HasBit(status, TIOCM_CTS)
    /\ delivered = {}
    /\ written = <<>>
    /\ fdOpen

\* C16: Write and WriteContext go through the gate exactly when the mode is
\* CTS; in modes None and RTS/CTS there is no background goroutine and the
\* data is written directly, never queued and never waiting for CTS
C16_GateOnlyInCTSMode ==
    /\ mode # FlowControlCTS =>
         /\ monPc = "absent"
         /\ accepted = <<>>
         /\ writeCh = <<>>
         /\ pendingWrite = NoReq
         /\ \A i \in Ids : q[i].pc \notin {"enq", "wait"}
    /\ mode = FlowControlCTS =>
         /\ monPc # "absent"
         /\ \A i \in Ids : q[i].pc # "direct"
         /\ \A a \in 1..Len(written) : \E c \in 1..Len(accepted) : accepted[c] = written[a]

\* RTS/CTS mode: the data of a Write went out in full with CTS inactive and
\* nothing was queued
C16_Witness ==
    /\ mode = FlowControlRTSCTS
    /\ written = <<1>>
    /\ call[1] = "retResult"
    /\ q[1].res = Result(reqLen[1], Nil)
    /\ ~HasBit(status, TIOCM_CTS)
    /\ accepted = <<>>

\* C17: SetRTS(b) changes only the RTS line and SetDTR(b) only the DTR line:
\* afterwards GetRTS / GetDTR and GetModemSignals report the line as b and
\* every other line as before; setting the value a line already has changes
\* nothing
C17_SetChangesOneLine ==
    [][/\ (lastOp' # lastOp /\ lastOp'.op = "SetRTS" /\ lastOp'.err = Nil) =>
            Signals(status') = [Signals(status) EXCEPT !.RTS = lastOp'.arg]
       /\ (lastOp' # lastOp /\ lastOp'.op = "SetDTR" /\ lastOp'.err = Nil) =>
            Signals(status') = [Signals(status) EXCEPT !.DTR = lastOp'.arg]
       /\ (lastOp'.op = "SetRTS" /\ lastOp'.err = Nil) =>
            HasBit(status', TIOCM_RTS) = lastOp'.arg
       /\ (lastOp'.op = "SetDTR" /\ lastOp'.err = Nil) =>
            HasBit(status', TIOCM_DTR) = lastOp'.arg
       /\ (lastOp'.op = "GetRTS" /\ lastOp'.err = Nil) =>
            lastOp'.val = HasBit(status', TIOCM_RTS)
       /\ (lastOp'.op = "GetDTR" /\ lastOp'.err = Nil) =>
            lastOp'.val = HasBit(status', TIOCM_DTR)
       /\ (lastOp' = lastOp /\ lastOp.op \in {"SetRTS", "SetDTR"}) =>
            /\ HasBit(status', TIOCM_RTS) = HasBit(status, TIOCM_RTS)
            /\ HasBit(status', TIOCM_DTR) = HasBit(status, TIOCM_DTR)
       /\ (lastOp' # lastOp /\ lastOp'.op = "GetModemSignals" /\ lastOp'.err = Nil) =>
            /\ status' = status
            /\ lastOp'.signals = [CTS |-> HasBit(status, TIOCM_CTS),
                                  DSR |-> HasBit(status, TIOCM_DSR),
                                  RI |-> HasBit(status, TIOCM_RI),
                                  DCD |-> HasBit(status, TIOCM_CAR),
                                  RTS |-> HasBit(status, TIOCM_RTS),
                                  DTR |-> HasBit(status, TIOCM_DTR)]
    ]_vars

\* SetRTS(true) has raised RTS on a port whose DTR and DCD lines are up
C17_Witness ==
    /\ lastOp.op = "SetRTS"
    /\ lastOp.arg
    /\ lastOp.err = Nil
    /\ Signals(status).RTS
    /\ Signals(status).DTR
    /\ Signals(status).DCD
    /\ ~Signals(status).CTS

\* C18: ReadContext and WriteContext called on an open port with a context
\* that is already done return the context's error with n = 0: no goroutine is
\* started, nothing is read or written on the descriptor and nothing is queued
\* in the gate; on a closed port they return ErrPortClosed whatever the context
C18_DoneContextReturnsBeforeIO ==
    [][/\ \A i \in Ids :
            /\ (call[i] = "none" /\ call'[i] = "retResult" /\ q'[i].res.err = CtxErr) =>
                  /\ ~closed
                  /\ q'[i] = [pc |-> "done", res |-> Result(0, CtxErr)]
                  /\ UNCHANGED <<gateVars, histVars, readers, status>>
            /\ call[i] = "none" => call'[i] \notin {"ctxFirst", "ctxLater"}
            /\ (call[i] = "none" /\ call'[i] # "none" /\ closed) =>
                  /\ call'[i] = "retResult"
                  /\ q'[i] = [pc |-> "done", res |-> Result(0, ErrPortClosed)]
                  /\ UNCHANGED <<gateVars, histVars, readers, status>>
       /\ (rd.pc = "idle" /\ rd'.pc = "inCall") => ~rd'.ctx /\ ~closed
       /\ (lastOp' # lastOp /\ lastOp'.op = "ReadContext" /\ ~lastOp'.touched) =>
             /\ lastOp'.err = IF closed THEN ErrPortClosed ELSE CtxErr
             /\ closed \/ lastOp'.arg
             /\ lastOp'.n = 0
             /\ UNCHANGED <<rd, readers, status, gateVars, histVars>>
       /\ (lastOp' # lastOp /\ lastOp'.op = "ReadContext" /\ lastOp'.touched) =>
             ~lastOp'.arg
    ]_vars

\* WriteContext on an open port in CTS mode has returned (0, ctx.Err()) at once
C18_Witness ==
    /\ mode = FlowControlCTS
    /\ ~closed
    /\ fdOpen
    /\ call[1] = "retResult"
    /\ q[1] = [pc |-> "done", res |-> Result(0, CtxErr)]
    /\ accepted = <<>>
    /\ written = <<>>
    /\ writeCh = <<>>
    /\ pendingWrite = NoReq

C20_TimeoutAndErrorsReturnNothing ==
    [][\A s \in SigCalls :
         /\ (sig[s].pc = "racing" /\ sig'[s].pc = "done"
               /\ sig[s].go \notin {"resOk", "resErr"}) =>
               sig'[s].res.err = IF sig[s].ctx THEN CtxErr ELSE ErrSignalTimeout
         /\ (sig'[s].pc = "done" /\ ~sig'[s].ctx) => sig'[s].res.err # CtxErr
         /\ (sig'[s].pc = "done" /\ sig'[s].ctx) => sig'[s].res.err # ErrSignalTimeout
         /\ (sig[s].pc = "snap" /\ sig'[s].pc = "done") => sig'[s].res.err = Errno
         /\ (sig[s].pc = "racing" /\ sig'[s].pc = "done" /\ sig'[s].go = "gone") =>
               sig'[s].res.err = IF sig[s].go = "resErr" THEN Errno ELSE Nil
         /\ (sig'[s].pc = "done" /\ sig'[s].res.err # Nil) =>
               /\ sig'[s].res.signals = [CTS |-> FALSE, DSR |-> FALSE, RI |-> FALSE,
                                         DCD |-> FALSE, RTS |-> FALSE, DTR |-> FALSE]
               /\ sig'[s].res.changed = 0
    ]_vars

\* WaitForSignalChangeContext has returned ctx.Err() with nothing else while
\* its goroutine is still inside TIOCMIWAIT
C20_Witness ==
    /\ sig[1].pc = "done"
    /\ sig[1].ctx
    /\ sig[1].touched
    /\ sig[1].go = "waiting"
    /\ sig[1].res.err = CtxErr
    /\ sig[1].res.changed = 0
    /\ ~sig[1].res.signals.DTR
    /\ HasBit(status, TIOCM_DTR)

\* the messages that contain the text "InitialRTS"
NamesInitialRTS(e) == e \in {ErrCTSNeedsInitialRTS, ErrRTSCTSNeedsInitialRTS}

\* C21: Open with flow control CTS or RTS/CTS and no InitialRTS fails with an
\* error that names InitialRTS before it opens the device: no descriptor was
\* opened and no background goroutine started; with InitialRTS set Open never
\* returns such an error
C21_FlowControlNeedsInitialRTS ==
    /\ (/\ opn.pc # "opts"
        /\ opn.optErr \in {"none", Nil}
        /\ config.FlowControl \in {FlowControlCTS, FlowControlRTSCTS}
        /\ config.InitialRTS = "nil") =>
          /\ opn.pc = "done"
          /\ NamesInitialRTS(opn.err)
          /\ opn.sysOpens = 0
          /\ ~fdOpen
          /\ monPc = "absent"
    /\ (/\ opn.pc = "done"
        /\ (config.InitialRTS # "nil" \/ config.FlowControl = FlowControlNone)) =>
          ~NamesInitialRTS(opn.err)

\* Open(dev, WithFlowControl(FlowControlRTSCTS)) has returned the RTS/CTS
\* message without a descriptor
C21_Witness ==
    /\ opn.pc = "done"
    /\ opn.nopts = 1
    /\ opn.opt = "WithFlowControl"
    /\ config.FlowControl = FlowControlRTSCTS
    /\ config.InitialRTS = "nil"
    /\ opn.err = ErrRTSCTSNeedsInitialRTS
    /\ opn.sysOpens = 0
    /\ ~fdOpen

C23_AcceptedIsDelivered ==
    monPc = "exited" =>
        \A k \in 1..Len(accepted) : accepted[k] \in delivered

\* C24: a port in CTS mode has its background goroutine from Open until Close
\* signals the shutdown: as long as stopCh is not closed the goroutine has
\* not returned, whatever errors the status query, the write or the
\* edge-wait gave
C24_MonitorLivesUntilClose ==
    (mode = FlowControlCTS /\ ~Stopped) => monPc \notin {"exited", "absent"}

\* C25: the resultCh of a request is sent on at most once, and only by the
\* background goroutine for the request it holds; at that moment the channel
\* of capacity 1 is empty, so the send does not block, also when the caller
\* of queueWrite has already returned; the only other change of a resultCh is
\* the caller's receive
C25_ResultSentOnceWithoutBlocking ==
    [][/\ \A i \in Ids :
            resultCh'[i] # resultCh[i] =>
               \/ /\ resultCh[i] = NoResult
                  /\ i = pendingWrite
                  /\ monPc \in {"query", "write", "select"}
                  /\ i \notin delivered
                  /\ i \in delivered'
                  /\ pendingWrite' = NoReq
               \/ /\ resultCh'[i] = NoResult
                  /\ i \in delivered
                  /\ q[i].pc = "wait"
                  /\ q'[i] = [pc |-> "done", res |-> resultCh[i]]
       /\ \A i \in Ids :
            (i \in delivered' /\ i \notin delivered) => resultCh'[i] # resultCh[i]
       /\ delivered \subseteq delivered'
    ]_vars

\* Write returned ErrCTSTimeout, and afterwards the goroutine wrote the data
\* and left the result in the request's channel
C25_Witness ==
    /\ call[1] = "retResult"
    /\ q[1] = [pc |-> "done", res |-> Result(0, ErrCTSTimeout)]
    /\ written = <<1>>
    /\ delivered = {1}
    /\ resultCh[1] = Result(reqLen[1], Nil)
    /\ pendingWrite = NoReq

\* the requests that were put in writeCh
Accepted == {accepted[k] : k \in 1..Len(accepted)}

\* C26: a gated write that fails in the first select of queueWrite
\* (ErrCTSTimeout or ErrPortClosed before the send on writeCh) was never
\* accepted: its request is not in the channel, is never held by the
\* goroutine, never gets a result, and its data is never written
C26_FirstPhaseFailureNeverWritten ==
    [][\A i \in Ids :
         /\ (q[i].pc = "enq" /\ q'[i].pc = "done") =>
               /\ q'[i].res \in {Result(0, ErrCTSTimeout), Result(0, ErrPortClosed)}
               /\ i \notin Accepted'
         /\ (mode = FlowControlCTS /\ q'[i].pc = "done" /\ i \notin Accepted) =>
               /\ i \notin Accepted'
               /\ \A k \in 1..Len(writeCh') : writeCh'[k] # i
               /\ pendingWrite' # i
               /\ resultCh'[i] = NoResult
               /\ i \notin delivered'
               /\ \A k \in 1..Len(written') : written'[k] # i
    ]_vars

\* request 2 timed out before it could be sent on the full channel; request 1
\* has been written since, request 2 not
C26_Witness ==
    /\ call[2] = "retResult"
    /\ q[2] = [pc |-> "done", res |-> Result(0, ErrCTSTimeout)]
    /\ accepted = <<1>>
    /\ written = <<1>>
    /\ monPc = "idle"
    /\ writeCh = <<>>
    /\ pendingWrite = NoReq

\* C27: the goroutine of a signal wait never calls TIOCMIWAIT with an empty
\* bitmask: whenever it has been started, the mask of the call translates to
\* at least one TIOCM line
C27_EdgeWaitHasALine ==
    \A s \in SigCalls :
        sig[s].go # "none" => signalMaskToTIOCM(sig[s].mask) # 0

\* C28: a signal wait that returns without error reports a change: its
\* changed mask is not 0
C28_SuccessReportsAChange ==
    \A s \in SigCalls :
        (sig[s].pc = "done" /\ sig[s].res.err = Nil) => sig[s].res.changed # 0

\* C29: once Close has closed stopCh the background goroutine returns,
\* from the first select as well as from the second, where the stopCh case
\* hands ErrPortClosed to the pending write; after it has returned it
\* receives no request, writes nothing and delivers nothing
C29_MonitorStopsAfterShutdown ==
    /\ Stopped ~> monPc = "exited"
    /\ [][/\ (monPc = "select" /\ monPc' = "exited" /\ waiter' = waiter) =>
               /\ Stopped
               /\ resultCh'[pendingWrite] = Result(0, ErrPortClosed)
               /\ pendingWrite' = NoReq
               /\ UNCHANGED <<writeCh, written>>
          /\ (monPc = "idle" /\ monPc' = "exited") =>
               /\ Stopped
               /\ UNCHANGED <<writeCh, pendingWrite, resultCh, written, delivered>>
          /\ monPc = "exited" =>
               /\ monPc' = "exited"
               /\ Len(writeCh') >= Len(writeCh)
               /\ UNCHANGED <<pendingWrite, written, delivered>>
               /\ \A i \in Ids : resultCh'[i] # resultCh[i] => resultCh'[i] = NoResult
       ]_vars

\* the goroutine returned from the edge-wait select on stopCh and left
\* ErrPortClosed for the request it held
C29_Witness ==
    /\ Stopped
    /\ monPc = "exited"
    /\ delivered = {1}
    /\ resultCh[1] = Result(0, ErrPortClosed)
    /\ written = <<>>
    /\ pendingWrite = NoReq

\* C30: for every pair of status words detectSignalChanges(old, new) is the
\* set of the lines CTS, DSR, RI, DCD whose bit differs: 0 for equal words,
\* the same with the arguments exchanged, a line that went low reported like
\* one that went high, and nothing for RTS and DTR
C30_DetectIsTheDifference ==
    sig[1].pc = "detect" =>
        LET o == sig[1].old
            n == sig[1].new
            c == sig[1].res.changed
        IN  /\ c \in 0..15
            /\ HasBit(c, SignalCTS) = (HasBit(o, TIOCM_CTS) # HasBit(n, TIOCM_CTS))
            /\ HasBit(c, SignalDSR) = (HasBit(o, TIOCM_DSR) # HasBit(n, TIOCM_DSR))
            /\ HasBit(c, SignalRI) = (HasBit(o, TIOCM_RI) # HasBit(n, TIOCM_RI))
            /\ HasBit(c, SignalDCD) = (HasBit(o, TIOCM_CAR) # HasBit(n, TIOCM_CAR))
            /\ o = n => c = 0
            /\ c = detectSignalChanges(n, o)
            /\ c = detectSignalChanges(Toggle(o, TIOCM_RTS), n)
            /\ c = detectSignalChanges(o, Toggle(n, TIOCM_DTR))

\* CTS and DCD went low, RI went high, RTS and DTR changed too: CTS, RI and
\* DCD are reported
C30_Witness ==
    /\ sig[1].pc = "detect"
    /\ sig[1].old = TIOCM_CTS + TIOCM_CAR + TIOCM_RTS
    /\ sig[1].new = TIOCM_RI + TIOCM_DTR
    /\ sig[1].res.changed = SignalCTS + SignalRI + SignalDCD

\* C31: signalMaskToTIOCM maps CTS, DSR, RI and DCD to TIOCM_CTS, TIOCM_DSR,
\* TIOCM_RI and TIOCM_CAR, the bits of a union of two masks are the union of
\* the bits of each, and the RTS and DTR bits are never set
C31_MaskToTIOCMPreservesUnions ==
    sig[1].pc = "tiocm" =>
        /\ sig[1].bitsAB = BitOr(sig[1].bitsA, sig[1].bitsB)
        /\ sig[1].a = SignalCTS => sig[1].bitsA = TIOCM_CTS
        /\ sig[1].a = SignalDSR => sig[1].bitsA = TIOCM_DSR
        /\ sig[1].a = SignalRI => sig[1].bitsA = TIOCM_RI
        /\ sig[1].a = SignalDCD => sig[1].bitsA = TIOCM_CAR
        /\ ~HasBit(sig[1].bitsAB, TIOCM_RTS) /\ ~HasBit(sig[1].bitsAB, TIOCM_DTR)
        /\ ~HasBit(sig[1].bitsA, TIOCM_RTS) /\ ~HasBit(sig[1].bitsA, TIOCM_DTR)

\* two different single lines and their union have been converted
C31_Witness ==
    /\ sig[1].pc = "tiocm"
    /\ sig[1].a = SignalRI
    /\ sig[1].b = SignalDCD
    /\ sig[1].bitsAB = TIOCM_RI + TIOCM_CAR

\* C32: Close takes effect (stopCh closed, descriptor closed, closed flag set)
\* only when no call holds the read lock; a plain gated Write that is in
\* progress returns its result or ErrCTSTimeout, never ErrPortClosed; and a
\* Close that is waiting for the lock returns in the end
C32_CloseWaitsForCallsAndReturns ==
    /\ [][(closed' # closed \/ stopCloses' # stopCloses \/ fdOpen' # fdOpen)
            => readers = 0 /\ \A i \in Ids : ~InCall(i)]_vars
    /\ [][\A i \in Ids :
            (call[i] = "inWrite" /\ Returned(i)')
            => /\ RetVal(i)'.err # ErrPortClosed
               /\ ~closed' /\ ~Stopped'
               /\ RetVal(i)'.err = ErrCTSTimeout \/ i \in delivered]_vars
    /\ \A k \in Closers : (clpc[k] = "waiting") ~> (clpc[k] = "done")

\* Close has been called and waits for the lock while a plain gated Write is
\* blocked waiting for CTS, its request held by the goroutine
C32_Witness ==
    \E k \in Closers, i \in Ids :
        /\ clpc[k] = "waiting"
        /\ call[i] = "inWrite"
        /\ q[i].pc = "wait"
        /\ pendingWrite = i
        /\ monPc = "select"
        /\ ~closed /\ ~Stopped

\* C33: the data of a gated Write / WriteContext call is written to the
\* descriptor at most once: no request appears twice among the writes issued
C33_WrittenAtMostOnce ==
    mode = FlowControlCTS =>
      \A a, b \in 1..Len(written) : a # b => written[a] # written[b]

\* both requests were written once, the first after its WriteContext had
\* returned the context's error, the second after its caller had timed out,
\* and the port has been shut down since
C33_Witness ==
    /\ mode = FlowControlCTS
    /\ Len(written) = 2
    /\ call[1] = "retCtx"
    /\ call[2] = "retResult" /\ q[2].res.err = ErrCTSTimeout
    /\ resultCh[2].err = Errno
    /\ Stopped

\* the helper goroutine of request i is still in queueWrite after its
\* WriteContext call has returned ctx.Err()
HelperLeft(i) == call[i] = "retCtx" /\ q[i].pc \in {"enq", "wait"}

\* C34 as stated: a helper left behind by WriteContext that ends once the
\* port is closed ends with ErrPortClosed or ErrCTSTimeout
C34_HelperEndsClosedOrTimeout ==
    [][\A i \in Ids :
         (HelperLeft(i) /\ closed /\ q'[i].pc = "done")
         => q'[i].res.err \in {ErrPortClosed, ErrCTSTimeout}]_vars

\* C34: a helper left behind by WriteContext can still have its request
\* accepted into the gate and written; once the port is
\* closed it ends with ErrPortClosed, ErrCTSTimeout or the result the
\* goroutine delivered for its request; and it always ends
C34_HelperRunsOnAndEnds ==
    /\ [][\A i \in Ids :
            /\ (HelperLeft(i) /\ q[i].pc = "enq" /\ Len(writeCh) < WriteChCap)
                 => ENABLED QAccept(i)
            /\ (HelperLeft(i) /\ pendingWrite = i /\ monPc = "write")
                 => ENABLED MonWrite
            /\ (HelperLeft(i) /\ closed /\ q'[i].pc = "done")
                 => \/ q'[i].res.err \in {ErrPortClosed, ErrCTSTimeout}
                    \/ i \in delivered /\ q'[i].res = resultCh[i]]_vars
    /\ \A i \in Ids : HelperLeft(i) ~> (q[i].pc = "done")

\* WriteContext returned the context's error for request 1; its data was
\* written all the same, and its helper ended with ErrPortClosed after the
\* shutdown
C34_Witness ==
    /\ call[1] = "retCtx"
    /\ written = <<1>>
    /\ resultCh[1] = Result(reqLen[1], Nil)
    /\ q[1] = [pc |-> "done", res |-> Result(0, ErrPortClosed)]
    /\ closed

\* the goroutines that hold p.mu as writers
LockHolders ==
    Cardinality({k \in Closers : clpc[k] = "stopped"})
    + Cardinality({t \in Setters : set[t].pc \in {"locked", "read"}})

\* C35: SetRTS, SetDTR and Close exclude each other and every holder of the
\* read lock, and no update of a line is lost: RTS is what the last SetRTS
\* call to write it wrote, DTR what the last SetDTR call to write it wrote
C35_SettersExcludeAndKeepUpdates ==
    /\ LockHolders <= 1
    /\ LockHolders = 1 => readers = 0
    /\ lineSet.RTS # "none" => (HasBit(status, TIOCM_RTS) <=> lineSet.RTS = "true")
    /\ lineSet.DTR # "none" => (HasBit(status, TIOCM_DTR) <=> lineSet.DTR = "true")

\* on a port that started with RTS and DTR high, SetRTS(false) and
\* SetDTR(true) have written their lines, and a third call waits for the
\* lock while a ReadContext holds it
C35_Witness ==
    /\ lineSet = [RTS |-> "false", DTR |-> "true"]
    /\ ~HasBit(status, TIOCM_RTS)
    /\ HasBit(status, TIOCM_DTR)
    /\ setCalls = MaxSetCalls
    /\ \E t \in Setters : set[t].pc = "waiting"
    /\ rd.pc = "inCall"

\* signal wait s is past its entry checks and has not returned, or its
\* goroutine is still running
SigBusy(s) ==
    sig[s].pc \in {"snap", "racing"} \/ sig[s].go \in {"start", "waiting", "woken"}

\* C36: a signal wait holds no lock once it is past its entry checks, so a
\* Close that waits for the lock can always take it; and after Close the call
\* and its goroutine go on issuing their ioctls on the descriptor they copied,
\* which now fail
C36_SignalWaitHoldsNoLock ==
    [][/\ \A s \in SigCalls : SigBusy(s) => readers = 0
       /\ \A k \in Closers :
            (clpc[k] = "waiting" /\ \E s \in SigCalls : SigBusy(s))
            => ENABLED CloseAcquire(k)
       /\ \A s \in SigCalls :
            /\ (closed /\ sig[s].pc = "snap") => ENABLED SigSnapshot(s)
            /\ (closed /\ sig[s].go = "start") => ENABLED SigGoStart(s)
            /\ (closed /\ sig[s].go = "woken") => ENABLED SigGoRead(s)
            /\ (closed /\ sig[s].pc = "snap" /\ sig'[s].pc # "snap")
                 => sig'[s].touched /\ sig'[s].res.err = Errno
            /\ (closed /\ sig[s].go \in {"start", "woken"} /\ sig'[s].go # sig[s].go)
                 => sig'[s].go = "resErr"]_vars

\* Close has run to its end while a signal wait was blocked in its edge-wait;
\* a line has changed since and the goroutine is about to read the status
\* from the closed descriptor
C36_Witness ==
    /\ closed
    /\ clpc[1] = "done"
    /\ sig[1].pc = "racing"
    /\ sig[1].go = "woken"

\* C37: no byte that the unix.Read of a ReadContext goroutine took from the
\* device goes unreturned: no read ends with data in a result that no call
\* receives
C37_NoByteLost == lostBytes = 0

\* C38: the goroutine starts an edge-wait goroutine only when none of its own
\* is outstanding, and has one outstanding only while it is in its second
\* select; an edge-wait goroutine left behind at shutdown can always send its
\* result on done (capacity 1) and end
C38_OneEdgeWaitNeverBlocked ==
    [][/\ (waiter' = "starting" /\ waiter # "starting")
            => waiter = "none" /\ monPc = "query" /\ monPc' = "select"
       /\ (monPc \notin {"exited", "absent"} /\ waiter # "none") => monPc = "select"
       /\ (monPc = "exited" /\ waiter = "starting") => ENABLED WaiterStart
       /\ (monPc = "exited" /\ waiter = "waiting")
            => ENABLED WaiterFail /\ ENABLED EnvToggle(TIOCM_CTS)
       /\ (monPc = "exited" /\ waiter \in {"starting", "waiting"} /\ waiter' # waiter)
            => waiter' \in {"waiting", "doneOk", "doneErr"}]_vars

\* the goroutine has returned at shutdown with its request answered
\* ErrPortClosed, and the edge-wait goroutine it left behind has since sent
\* its result on done, where no one receives it
C38_Witness ==
    /\ monPc = "exited"
    /\ Stopped
    /\ resultCh[1] = Result(0, ErrPortClosed)
    /\ waiter = "doneOk"

\* C39: on a CTS-mode port every unix.Write on the descriptor is issued by the
\* background goroutine, at its write step and for the request it holds; no
\* Write or WriteContext call and no helper goroutine writes itself, so the
\* writes are issued one at a time
C39_OnlyTheGoroutineWrites ==
    [][mode = FlowControlCTS =>
         /\ \A i \in Ids : q'[i].pc # "direct"
         /\ written' # written =>
              /\ monPc = "write" /\ monPc' # "write"
              /\ pendingWrite # NoReq
              /\ written' = Append(written, pendingWrite)
              /\ UNCHANGED <<call, q, nextId>>]_vars

\* a Write and a WriteContext call are in progress at the same time; the
\* goroutine has written the data of the first and is about to write the
\* data of the second
C39_Witness ==
    /\ mode = FlowControlCTS
    /\ call[1] = "inWrite" /\ q[1].pc = "wait"
    /\ written = <<1>>
    /\ resultCh[1] = Result(reqLen[1], Nil)
    /\ call[2] = "inWriteCtx" /\ q[2].pc = "wait"
    /\ pendingWrite = 2
    /\ monPc = "write"

====
